---- MODULE Spec2Model ----
(***************************************************************************)
(* A model of proxmox/restore-watcher/restore_watcher.py: the estimator,   *)
(* the dashboard, the monitor loop (collect_monitoring_data), the monitor  *)
(* flow (monitor_restore_task) and the command line entry point (main).    *)
(*                                                                         *)
(* Python floats are modelled as exact rationals [n, d] in lowest terms;   *)
(* math.inf is the rational with denominator 0.  An optional value (None)  *)
(* is the empty sequence <<>>, a present value x is <<x>>.                 *)
(***************************************************************************)
EXTENDS Integers, Sequences, FiniteSets, TLC

VARIABLES
    pc,                  \* position of the run (main / monitor / collect loop)
    entry,               \* which function the run was started from
    restore_tasks,       \* main: result of filter_restore_tasks(read_active_tasks())
    log_supplied,        \* monitor_restore_task: a log_lines iterable was passed
    has_stream,          \* collect: output_stream is not None
    tty_mode,            \* collect: output_stream.isatty()
    update_interval,     \* collect: update_interval_seconds
    now_fn,              \* collect: "monotonic" (time.monotonic) or "frozen" (a constant clock)
    files,               \* the files under the tasks root, as [folder, name]
    now,                 \* last value returned by now_fn (non-decreasing clock)
    line,                \* collect: the line pulled in the current iteration
    progress,            \* collect: parse_progress_line(line) of the iteration
    points,              \* collect: list of parsed progress samples
    recent_logs,         \* collect: deque(maxlen=5) of non-empty lines
    last_seen_line,      \* collect: last non-empty line
    last_speed,          \* collect: speed memory
    last_eta,            \* collect: last ETA
    previous_line_count, \* collect: line count of the previous repaint
    last_output_time,    \* collect: clock value of the last repaint
    result,              \* <<>> or <<[points, status]>> returned by collect/monitor
    final_status,        \* main: final_status local
    out,                 \* everything written to the output stream / stdout
    pulled,              \* history: every line pulled from the log source
    resolved,            \* history: number of log path resolutions performed
    signal,              \* history: None, or the position where KeyboardInterrupt arrived
    fn_args,             \* pure-function harness: the arguments drawn by Init
    fn_ret,              \* pure-function harness: <<>> or <<returned value>>
    log_file,            \* follow_log_lines: what the followed logfile holds
    handle,              \* follow_log_lines: <<>> before the open, <<read position>> after
    yielded,             \* history: what follow_log_lines yielded from the file
    existing             \* history: length of the logfile when it was opened

loopVars == <<line, progress, points, recent_logs, last_seen_line, last_speed,
              last_eta, previous_line_count, last_output_time>>
cfgVars == <<entry, restore_tasks, log_supplied, has_stream, tty_mode,
             update_interval, now_fn, files>>
runVars == <<pc, now, result, final_status, out, pulled, resolved, signal>>
fnVars == <<fn_args, fn_ret>>
followVars == <<log_file, handle, yielded, existing>>
vars == <<pc, entry, restore_tasks, log_supplied, has_stream, tty_mode,
          update_interval, now_fn, files, now, line, progress, points, recent_logs,
          last_seen_line, last_speed, last_eta, previous_line_count,
          last_output_time, result, final_status, out, pulled, resolved,
          signal, fn_args, fn_ret, log_file, handle, yielded, existing>>

----------------------------------------------------------------------------
(* Bounds of the model.                                                    *)

\* longest sample list handed to the estimator harness
MaxPoints == 7

\* most lines a log source yields in the full-configuration runs
MaxLines == 3

\* most lines a log source yields in the long runs of the monitor loop
MaxLongLines == 8

\* largest value the monotonic clock reaches
MaxNow == 1

----------------------------------------------------------------------------
(* Exact arithmetic standing for Python floats.                            *)

Abs(x) == IF x < 0 THEN 0 - x ELSE x

Min(a, b) == IF a <= b THEN a ELSE b

Max(a, b) == IF a >= b THEN a ELSE b

RECURSIVE GCD(_, _)
GCD(a, b) == IF b = 0 THEN a ELSE GCD(b, a % b)

\* the rational n/d (d # 0) in lowest terms with a positive denominator
Rat(n, d) ==
    LET g == GCD(Abs(n), Abs(d))
        s == IF d < 0 THEN 0 - 1 ELSE 1
    IN  [n |-> (s * n) \div g, d |-> (s * d) \div g]

FromInt(i) == [n |-> i, d |-> 1]

Zero == FromInt(0)

\* math.inf
Inf == [n |-> 1, d |-> 0]

IsInf(x) == x.d = 0

RAdd(a, b) == Rat(a.n * b.d + b.n * a.d, a.d * b.d)

RSub(a, b) == Rat(a.n * b.d - b.n * a.d, a.d * b.d)

RMul(a, b) == Rat(a.n * b.n, a.d * b.d)

\* a / b for b # 0
RDiv(a, b) == Rat(a.n * b.d, a.d * b.n)

RPos(a) == a.n > 0

RLeq(a, b) == a.n * b.d <= b.n * a.d

RMax(a, b) == IF RLeq(a, b) THEN b ELSE a

\* an optional value
None == << >>

Some(x) == << x >>

----------------------------------------------------------------------------
(* ProgressPoint = tuple[int, float, float | None]                          *)

Point(e, v, t) == [elapsed |-> e, value |-> v, total |-> t]

\* points[-k:]
LastK(s, k) == IF Len(s) <= k THEN s ELSE SubSeq(s, Len(s) - k + 1, Len(s))

----------------------------------------------------------------------------
(* calculate_eta_and_speed_with_memory                                      *)

\* EtaWindow with the slice points[-7:]
EtaWindow_Seven(pts) == LastK(pts, 7)

\* points[-6:]
EtaWindow(pts) == LastK(pts, 6)

\* whether one consecutive pair is accumulated: delta_seconds > 0 and delta_value > 0
PairCounts(previous_point, current_point) ==
    /\ current_point.elapsed - previous_point.elapsed > 0
    /\ RPos(RSub(current_point.value, previous_point.value))

\* the for loop over zip(window, window[1:]), from pair i on, with the running sums
RECURSIVE AccumulateDeltas(_, _, _)
AccumulateDeltas(window, i, acc) ==
    IF i >= Len(window) THEN acc
    ELSE LET previous_point == window[i]
             current_point == window[i + 1]
             delta_seconds == current_point.elapsed - previous_point.elapsed
             delta_value == RSub(current_point.value, previous_point.value)
         IN  IF PairCounts(previous_point, current_point)
             THEN AccumulateDeltas(window, i + 1,
                      [seconds |-> acc.seconds + delta_seconds,
                       value |-> RAdd(acc.value, delta_value)])
             ELSE AccumulateDeltas(window, i + 1, acc)

\* SmoothedSpeed starting from 0.0 instead of previous_speed
SmoothedSpeed_ResetsToZero(sums, previous_speed) ==
    IF sums.seconds > 0 /\ RPos(sums.value)
    THEN RDiv(sums.value, FromInt(sums.seconds))
    ELSE Zero

\* speed = previous_speed unless both sums are positive
SmoothedSpeed(sums, previous_speed) ==
    IF sums.seconds > 0 /\ RPos(sums.value)
    THEN RDiv(sums.value, FromInt(sums.seconds))
    ELSE previous_speed

\* the ETA without the clamp max(..., 0.0) of line 212
EtaFor_NoClamp(latest, speed) ==
    IF latest.total = None \/ ~RPos(speed)
    THEN Inf
    ELSE RDiv(RSub(latest.total[1], latest.value), speed)

\* the ETA for the latest point at the given speed
EtaFor(latest, speed) ==
    IF latest.total = None \/ ~RPos(speed)
    THEN Inf
    ELSE RDiv(RMax(RSub(latest.total[1], latest.value), Zero), speed)

\* calculate_eta_and_speed_with_memory with the guard len(points) < 1
calculate_eta_and_speed_with_memory_OffByOne(pts, previous_speed) ==
    IF Len(pts) < 1
    THEN [speed |-> previous_speed, eta |-> Inf]
    ELSE LET window == EtaWindow(pts)
             sums == AccumulateDeltas(window, 1, [seconds |-> 0, value |-> Zero])
             speed == SmoothedSpeed(sums, previous_speed)
         IN  [speed |-> speed, eta |-> EtaFor(pts[Len(pts)], speed)]

\* returns (speed, eta)
calculate_eta_and_speed_with_memory(pts, previous_speed) ==
    IF Len(pts) < 2
    THEN [speed |-> previous_speed, eta |-> Inf]
    ELSE LET window == EtaWindow(pts)
             sums == AccumulateDeltas(window, 1, [seconds |-> 0, value |-> Zero])
             speed == SmoothedSpeed(sums, previous_speed)
         IN  [speed |-> speed, eta |-> EtaFor(pts[Len(pts)], speed)]

calculate_eta_and_speed(pts) == calculate_eta_and_speed_with_memory(pts, Zero)

\* calculate_total_average_speed
calculate_total_average_speed(pts) ==
    IF Len(pts) < 2 THEN Zero
    ELSE LET elapsed_delta == pts[Len(pts)].elapsed - pts[1].elapsed
             value_delta == RSub(pts[Len(pts)].value, pts[1].value)
         IN  IF elapsed_delta <= 0 \/ ~RPos(value_delta)
             THEN Zero
             ELSE RDiv(value_delta, FromInt(elapsed_delta))

----------------------------------------------------------------------------
(* Log lines.  A line is its text, a sequence of words (<<>> is the empty    *)
(* poll tick), together with what each progress pattern's search finds in   *)
(* it: None, or the named groups of the match.                              *)

Line(text, sz, bp, pc_) == [text |-> text, size_with_total |-> sz,
                            bytes_progress |-> bp, percent_only |-> pc_]

\* the (?P<elapsed>(?:\d+m\s+)?\d+s) group: minutes optional, seconds required.
\* The pattern is compiled with re.IGNORECASE, so the two suffix letters are
\* matched in either case: the group keeps them as written.
ElapsedText(minutes, minute_mark, seconds, second_mark) ==
    [minutes |-> minutes, minute_mark |-> minute_mark,
     seconds |-> seconds, second_mark |-> second_mark]

\* an elapsed group written with lower-case suffixes, "2m 0s" or "45s"
Elapsed(minutes, seconds) == ElapsedText(minutes, "m", seconds, "s")

\* _parse_elapsed_seconds: the inner searches (\d+)m and (\d+)s are case
\* sensitive; a group without a match counts 0
parse_elapsed_seconds(elapsed) ==
    LET minutes_match == elapsed.minutes # None /\ elapsed.minute_mark = "m"
        seconds_match == elapsed.second_mark = "s"
        minutes == IF minutes_match THEN elapsed.minutes[1] ELSE 0
        seconds == IF seconds_match THEN elapsed.seconds ELSE 0
    IN  (minutes * 60) + seconds

\* str.lower() on the unit spellings the IGNORECASE pattern accepts
LowerUnit(unit) ==
    CASE unit \in {"MiB", "mib", "MIB"} -> "mib"
      [] unit \in {"GiB", "gib", "GIB"} -> "gib"

\* _to_gib
to_gib(value, unit) ==
    IF LowerUnit(unit) = "mib" THEN RDiv(value, FromInt(1024)) ELSE value

\* _bytes_to_gib
bytes_to_gib(value) == Rat(value, 1024 * 1024 * 1024)

\* parse_progress_line with the patterns tried in the reverse order
parse_progress_line_ReverseOrder(l) ==
    IF l.percent_only # None
    THEN LET m == l.percent_only[1]
         IN  Some(Point(parse_elapsed_seconds(m.elapsed), m.percent, None))
    ELSE IF l.bytes_progress # None
    THEN LET m == l.bytes_progress[1]
             transferred_gib == bytes_to_gib(m.read_bytes)
         IN  IF ~RPos(m.percent)
             THEN Some(Point(m.duration_seconds, transferred_gib, None))
             ELSE Some(Point(m.duration_seconds, transferred_gib,
                             Some(RDiv(RMul(transferred_gib, FromInt(100)), m.percent))))
    ELSE IF l.size_with_total # None
    THEN LET m == l.size_with_total[1]
         IN  Some(Point(parse_elapsed_seconds(m.elapsed),
                        to_gib(m.transferred, m.unit),
                        Some(to_gib(m.total, m.total_unit))))
    ELSE None

\* parse_progress_line: the patterns in the order of _PROGRESS_PATTERNS
parse_progress_line(l) ==
    IF l.size_with_total # None
    THEN LET m == l.size_with_total[1]
         IN  Some(Point(parse_elapsed_seconds(m.elapsed),
                        to_gib(m.transferred, m.unit),
                        Some(to_gib(m.total, m.total_unit))))
    ELSE IF l.bytes_progress # None
    THEN LET m == l.bytes_progress[1]
             transferred_gib == bytes_to_gib(m.read_bytes)
         IN  IF ~RPos(m.percent)
             THEN Some(Point(m.duration_seconds, transferred_gib, None))
             ELSE Some(Point(m.duration_seconds, transferred_gib,
                             Some(RDiv(RMul(transferred_gib, FromInt(100)), m.percent))))
    ELSE IF l.percent_only # None
    THEN LET m == l.percent_only[1]
         IN  Some(Point(parse_elapsed_seconds(m.elapsed), m.percent, None))
    ELSE None

----------------------------------------------------------------------------
(* detect_terminal_status                                                   *)

\* str.lower() on one word of a line
LowerWord(w) ==
    CASE w \in {"TASK", "Task", "task"} -> "task"
      [] w \in {"OK", "Ok", "ok"} -> "ok"
      [] w \in {"ERROR", "ERROR:", "Error", "error"} -> "error"
      [] w \in {"FAILED", "Failed", "failed"} -> "failed"
      [] w \in {"ABORTED", "Aborted", "aborted"} -> "aborted"
      [] w \in {"COMPLETED", "Completed", "completed"} -> "completed"
      [] w \in {"SUCCESS", "Success", "success"} -> "success"
      [] OTHER -> w

\* line.lower()
Lowered(text) == [i \in 1..Len(text) |-> LowerWord(text[i])]

\* marker in lowered: the marker's words occur consecutively in the text
Contains(text, marker) ==
    \E i \in 1..(Len(text) - Len(marker) + 1) :
        \A j \in 1..Len(marker) : text[i + j - 1] = marker[j]

SUCCESS_STATUS_MARKERS == << <<"task", "ok">>, <<"completed">>, <<"success">> >>

FAILURE_STATUS_MARKERS == << <<"task", "error">>, <<"failed">>, <<"aborted">> >>

AnyMarker(lowered, markers) ==
    \E k \in 1..Len(markers) : Contains(lowered, markers[k])

\* detect_terminal_status with the success markers checked first
detect_terminal_status_SuccessFirst(l) ==
    LET lowered == Lowered(l.text)
    IN  IF AnyMarker(lowered, SUCCESS_STATUS_MARKERS) THEN Some("success")
        ELSE IF AnyMarker(lowered, FAILURE_STATUS_MARKERS) THEN Some("failure")
        ELSE None

\* returns "failure", "success" or None
detect_terminal_status(l) ==
    LET lowered == Lowered(l.text)
    IN  IF AnyMarker(lowered, FAILURE_STATUS_MARKERS) THEN Some("failure")
        ELSE IF AnyMarker(lowered, SUCCESS_STATUS_MARKERS) THEN Some("success")
        ELSE None

----------------------------------------------------------------------------
(* The dashboard.                                                           *)

\* _truncate, on a sequence
truncate(value, length) ==
    IF Len(value) <= length THEN value
    ELSE IF length <= 3 THEN SubSeq(value, 1, length)
    ELSE SubSeq(value, 1, length - 3) \o <<"...">>

\* build_tqdm_line: the quantities the status line shows
build_tqdm_line(pts, speed_gib_s, average_speed_gib_s, eta_seconds, waiting) ==
    LET latest == pts[Len(pts)]
        hundred == FromInt(100)
        clamp(x) == RMax(Zero, IF RLeq(x, hundred) THEN x ELSE hundred)
        percent ==
            IF pts = << >> THEN Zero
            ELSE IF latest.total # None /\ RPos(latest.total[1])
            THEN clamp(RMul(RDiv(latest.value, latest.total[1]), hundred))
            ELSE clamp(latest.value)
    IN  [percent |-> percent,
         transferred |-> IF pts = << >> THEN Zero ELSE latest.value,
         total |-> IF pts = << >> THEN None ELSE latest.total,
         now_speed |-> speed_gib_s,
         avg_speed |-> average_speed_gib_s,
         elapsed |-> IF pts = << >> THEN 0 ELSE Max(0, latest.elapsed),
         eta |-> eta_seconds,
         waiting |-> waiting]

\* build_dashboard_lines that drops the log lines from a waiting redraw
build_dashboard_lines_StatusOnlyWaiting(pts, speed_gib_s, average_speed_gib_s, eta_seconds, logs, waiting, color) ==
    LET status_line == build_tqdm_line(pts, speed_gib_s, average_speed_gib_s,
                                       eta_seconds, waiting)
        shown == IF waiting THEN << >> ELSE LastK(logs, 5)
    IN  <<[role |-> "status", status |-> status_line, color |-> color]>>
        \o [i \in 1..Len(shown) |->
               [role |-> "log", text |-> truncate(shown[i].text, 140), color |-> color]]

\* build_dashboard_lines: one status line plus recent_logs[-5:]
build_dashboard_lines(pts, speed_gib_s, average_speed_gib_s, eta_seconds, logs, waiting, color) ==
    LET status_line == build_tqdm_line(pts, speed_gib_s, average_speed_gib_s,
                                       eta_seconds, waiting)
        shown == LastK(logs, 5)
    IN  <<[role |-> "status", status |-> status_line, color |-> color]>>
        \o [i \in 1..Len(shown) |->
               [role |-> "log", text |-> truncate(shown[i].text, 140), color |-> color]]

\* render_dashboard moving the cursor up by the height of the frame it writes
render_dashboard_UpByCurrent(lines, previous_count, is_tty) ==
    [kind |-> "frame",
     cursor_up |-> IF is_tty /\ previous_count > 0 THEN Len(lines) ELSE 0,
     clear |-> is_tty,
     lines |-> lines]

\* render_dashboard: what one repaint writes to the stream
render_dashboard(lines, previous_count, is_tty) ==
    [kind |-> "frame",
     cursor_up |-> IF is_tty /\ previous_count > 0 THEN previous_count ELSE 0,
     clear |-> is_tty,
     lines |-> lines]

\* deque_append on a deque created without maxlen
deque_append_Unbounded(dq, x) == Append(dq, x)

\* collections.deque(maxlen=5).append
deque_append(dq, x) ==
    IF Len(dq) >= 5 THEN Tail(dq) \o <<x>> ELSE Append(dq, x)

----------------------------------------------------------------------------
(* Final summary and task selection.                                        *)

\* map_final_status_message with the "interrupted" entry missing from the table
map_final_status_message_NoInterrupted(status) ==
    IF status = None THEN "Final status: unknown"
    ELSE CASE status[1] = "success" -> "Final status: success"
           [] status[1] = "failure" -> "Final status: failure"
           [] status[1] = "no-task" -> "Final status: no-task"
           [] status[1] = "log-missing" -> "Final status: log-missing"
           [] OTHER -> "Final status: unknown"

\* map_final_status_message
map_final_status_message(status) ==
    IF status = None THEN "Final status: unknown"
    ELSE CASE status[1] = "success" -> "Final status: success"
           [] status[1] = "failure" -> "Final status: failure"
           [] status[1] = "interrupted" -> "Final status: interrupted"
           [] status[1] = "no-task" -> "Final status: no-task"
           [] status[1] = "log-missing" -> "Final status: log-missing"
           [] OTHER -> "Final status: unknown"

\* choose_restore_task taking the first of several tasks
choose_restore_task_First(tasks) ==
    IF tasks = << >> THEN None
    ELSE IF Len(tasks) = 1 THEN Some(tasks[1])
    ELSE Some(tasks[1])

\* choose_restore_task
choose_restore_task(tasks) ==
    IF tasks = << >> THEN None
    ELSE IF Len(tasks) = 1 THEN Some(tasks[1])
    ELSE Some(tasks[Len(tasks)])

HEX_ARCHIVE_FOLDERS == <<"0", "1", "2", "3", "4", "5", "6", "7",
                         "8", "9", "A", "B", "C", "D", "E", "F">>

HexDigits == {"0", "1", "2", "3", "4", "5", "6", "7", "8", "9",
              "A", "B", "C", "D", "E", "F", "a", "b", "c", "d", "e", "f"}

\* str.upper() on one character
UpperChar(c) ==
    CASE c = "a" -> "A" [] c = "b" -> "B" [] c = "c" -> "C"
      [] c = "d" -> "D" [] c = "e" -> "E" [] c = "f" -> "F"
      [] OTHER -> c

\* re.fullmatch(r"[0-9A-Fa-f]{8}", pstart), pstart a sequence of characters
IsHexStart(pstart) ==
    /\ Len(pstart) = 8
    /\ \A i \in 1..Len(pstart) : pstart[i] \in HexDigits

\* the scan of lines 139-144 walking the folders from "F" down to "0"
RECURSIVE ScanFolders_Descending(_, _, _, _)
ScanFolders_Descending(upid, expected_folder, tree, k) ==
    IF k > Len(HEX_ARCHIVE_FOLDERS) THEN None
    ELSE LET folder == HEX_ARCHIVE_FOLDERS[Len(HEX_ARCHIVE_FOLDERS) + 1 - k]
         IN  IF folder # expected_folder /\ [folder |-> folder, name |-> upid] \in tree
             THEN Some([folder |-> folder, name |-> upid])
             ELSE ScanFolders_Descending(upid, expected_folder, tree, k + 1)

\* the first folder, in HEX_ARCHIVE_FOLDERS order and other than the expected
\* one, that holds the file; None when there is none
RECURSIVE ScanFolders(_, _, _, _)
ScanFolders(upid, expected_folder, tree, k) ==
    IF k > Len(HEX_ARCHIVE_FOLDERS) THEN None
    ELSE LET folder == HEX_ARCHIVE_FOLDERS[k]
         IN  IF folder # expected_folder /\ [folder |-> folder, name |-> upid] \in tree
             THEN Some([folder |-> folder, name |-> upid])
             ELSE ScanFolders(upid, expected_folder, tree, k + 1)

\* find_task_logfile accepting any identifier long enough to hold a start field
find_task_logfile_NoCountCheck(upid, tree) ==
    IF Len(upid) < 5 \/ upid[1] # <<"U", "P", "I", "D">> THEN None
    ELSE IF ~IsHexStart(upid[5]) THEN None
    ELSE LET expected_folder == UpperChar(upid[5][1])
         IN  IF [folder |-> expected_folder, name |-> upid] \in tree
             THEN Some([folder |-> expected_folder, name |-> upid])
             ELSE ScanFolders(upid, expected_folder, tree, 1)

\* find_task_logfile: upid is the identifier as its ":"-separated parts, each
\* a sequence of characters; tree is the set of tree under the tasks root
find_task_logfile(upid, tree) ==
    IF Len(upid) < 8 \/ upid[1] # <<"U", "P", "I", "D">> THEN None
    ELSE IF ~IsHexStart(upid[5]) THEN None
    ELSE LET expected_folder == UpperChar(upid[5][1])
         IN  IF \A k \in 1..Len(HEX_ARCHIVE_FOLDERS) :
                    HEX_ARCHIVE_FOLDERS[k] # expected_folder
             THEN None
             ELSE IF [folder |-> expected_folder, name |-> upid] \in tree
             THEN Some([folder |-> expected_folder, name |-> upid])
             ELSE ScanFolders(upid, expected_folder, tree, 1)

\* the candidates of the scan tested with exists(), up to the first that exists
RECURSIVE ScanProbes(_, _, _, _)
ScanProbes(upid, expected_folder, tree, k) ==
    IF k > Len(HEX_ARCHIVE_FOLDERS) THEN << >>
    ELSE LET folder == HEX_ARCHIVE_FOLDERS[k]
             candidate == [folder |-> folder, name |-> upid]
         IN  IF folder = expected_folder
             THEN ScanProbes(upid, expected_folder, tree, k + 1)
             ELSE IF candidate \in tree THEN <<candidate>>
             ELSE <<candidate>> \o ScanProbes(upid, expected_folder, tree, k + 1)

\* find_task_logfile: the paths it tests with Path.exists(), in order
find_task_logfile_probes(upid, tree) ==
    IF Len(upid) < 8 \/ upid[1] # <<"U", "P", "I", "D">> \/ ~IsHexStart(upid[5])
    THEN << >>
    ELSE LET expected_folder == UpperChar(upid[5][1])
             preferred == [folder |-> expected_folder, name |-> upid]
         IN  IF preferred \in tree THEN <<preferred>>
             ELSE <<preferred>> \o ScanProbes(upid, expected_folder, tree, 1)

\* resolve_restore_logfile
resolve_restore_logfile(task, tree) ==
    IF task.upid = << >> THEN None ELSE find_task_logfile(task.upid, tree)


----------------------------------------------------------------------------
(* The index of active tasks: parse_upid and read_active_tasks.  A line is  *)
(* a sequence of characters; a call returns a value or raises.              *)

Returned(value) == [kind |-> "return", value |-> value]

Raised(exception) == [kind |-> "raise", exception |-> exception]

\* str.isspace() on one character
IsSpace(c) == c \in {" ", "\t", "\n"}

\* s[k:] for k >= 0
DropChars(s, k) == IF k >= Len(s) THEN << >> ELSE SubSeq(s, k + 1, Len(s))

\* str.rstrip("\n")
RECURSIVE RstripNewline(_)
RstripNewline(s) ==
    IF s # << >> /\ s[Len(s)] = "\n"
    THEN RstripNewline(SubSeq(s, 1, Len(s) - 1))
    ELSE s

\* str.lstrip()
RECURSIVE Lstrip(_)
Lstrip(s) == IF s # << >> /\ IsSpace(s[1]) THEN Lstrip(DropChars(s, 1)) ELSE s

\* the longest prefix without whitespace
RECURSIVE TokenPrefix(_)
TokenPrefix(s) ==
    IF s = << >> \/ IsSpace(s[1]) THEN << >>
    ELSE <<s[1]>> \o TokenPrefix(DropChars(s, 1))

\* str.split(maxsplit=1)[0]: the first whitespace-separated token; the list
\* is empty, and the subscript raises IndexError, when there is no token
FirstToken(s) ==
    IF Lstrip(s) = << >> THEN Raised("IndexError")
    ELSE Returned(TokenPrefix(Lstrip(s)))

\* str.split(":")
RECURSIVE SplitColon(_)
SplitColon(s) ==
    IF \A i \in 1..Len(s) : s[i] # ":" THEN <<s>>
    ELSE LET k == CHOOSE i \in 1..Len(s) : s[i] = ":" /\ \A j \in 1..(i - 1) : s[j] # ":"
         IN  <<SubSeq(s, 1, k - 1)>> \o SplitColon(DropChars(s, k))

\* str.startswith("  ")
StartsWithTwoSpaces(s) == Len(s) >= 2 /\ s[1] = " " /\ s[2] = " "

\* parse_upid
parse_upid(l) ==
    LET raw_line == RstripNewline(l)
    IN  IF raw_line = << >> THEN Returned(None)
        ELSE IF FirstToken(raw_line).kind = "raise" THEN FirstToken(raw_line)
        ELSE LET upid == FirstToken(raw_line).value
                 trailing == DropChars(raw_line, Len(upid))
                 status == IF StartsWithTwoSpaces(trailing) \/ Lstrip(trailing) = << >>
                           THEN << >>
                           ELSE FirstToken(trailing).value
                 upid_parts == SplitColon(upid)
                 action == IF Len(upid_parts) > 5 THEN upid_parts[6] ELSE << >>
             IN  Returned(Some([upid |-> upid, action |-> action,
                                status |-> status, raw |-> raw_line]))

\* ACTIVE_STATUS_MARKERS = {"", "0"}
ACTIVE_STATUS_MARKERS == {<< >>, <<"0">>}

\* the loop of read_active_tasks over the lines from place k on
RECURSIVE ReadLines(_, _, _)
ReadLines(lines, k, tasks) ==
    IF k > Len(lines) THEN Returned(tasks)
    ELSE LET parsed == parse_upid(lines[k])
         IN  IF parsed.kind = "raise" THEN parsed
             ELSE IF parsed.value = None THEN ReadLines(lines, k + 1, tasks)
             ELSE IF parsed.value[1].status \in ACTIVE_STATUS_MARKERS
             THEN ReadLines(lines, k + 1, Append(tasks, parsed.value[1]))
             ELSE ReadLines(lines, k + 1, tasks)

\* read_active_tasks: the index is missing (path.exists() is false) or holds
\* the given lines
read_active_tasks(index) ==
    IF ~index.exists THEN Returned(<< >>) ELSE ReadLines(index.lines, 1, << >>)

\* str.lower() on one character
LowerChar(c) ==
    CASE c = "A" -> "a" [] c = "B" -> "b" [] c = "C" -> "c" [] c = "D" -> "d"
      [] c = "E" -> "e" [] c = "F" -> "f" [] c = "G" -> "g" [] c = "H" -> "h"
      [] c = "I" -> "i" [] c = "J" -> "j" [] c = "K" -> "k" [] c = "L" -> "l"
      [] c = "M" -> "m" [] c = "N" -> "n" [] c = "O" -> "o" [] c = "P" -> "p"
      [] c = "Q" -> "q" [] c = "R" -> "r" [] c = "S" -> "s" [] c = "T" -> "t"
      [] c = "U" -> "u" [] c = "V" -> "v" [] c = "W" -> "w" [] c = "X" -> "x"
      [] c = "Y" -> "y" [] c = "Z" -> "z"
      [] OTHER -> c

\* str.lower() on a string of characters
LowerChars(text) == [i \in 1..Len(text) |-> LowerChar(text[i])]

RESTORE_ACTION_MARKERS == {<<"q", "m", "r", "e", "s", "t", "o", "r", "e">>, <<"p", "c", "t", "r", "e", "s", "t", "o", "r", "e">>}

RESTORE_KEYWORD_MARKERS == {<<"r", "e", "s", "t", "o", "r", "e">>, <<"r", "e", "s", "t", "o", "r", "i", "n", "g">>, <<"b", "a", "c", "k", "u", "p">>}

\* the test of one task in filter_restore_tasks
IsRestoreTask(task) ==
    LET action == LowerChars(task.action)
        task_text == LowerChars(task.upid \o <<" ">> \o task.raw)
    IN  \/ action \in RESTORE_ACTION_MARKERS
        \/ \E keyword \in RESTORE_KEYWORD_MARKERS : Contains(task_text, keyword)

\* filter_restore_tasks
RECURSIVE filter_restore_tasks(_)
filter_restore_tasks(tasks) ==
    IF tasks = << >> THEN << >>
    ELSE LET rest == filter_restore_tasks(Tail(tasks))
         IN  IF IsRestoreTask(Head(tasks)) THEN <<Head(tasks)>> \o rest ELSE rest

----------------------------------------------------------------------------
(* The inputs of the model.                                                 *)

SizeMatch(transferred, unit, total, total_unit, minutes, seconds) ==
    Some([transferred |-> FromInt(transferred), unit |-> unit,
          total |-> FromInt(total), total_unit |-> total_unit,
          elapsed |-> Elapsed(minutes, seconds)])

\* the empty poll tick of follow_log_lines
TickLine == Line(<< >>, None, None, None)

\* "restoring archive"
NoiseLine == Line(<<"restoring", "archive">>, None, None, None)

\* "transferred 1 GiB of 10 GiB in 10s"
P10Line == Line(<<"transferred", "1", "GiB", "of", "10", "GiB", "in", "10s">>,
                SizeMatch(1, "GiB", 10, "GiB", None, 10), None, None)

\* "transferred 2 GiB of 10 GiB in 20s"
P20Line == Line(<<"transferred", "2", "GiB", "of", "10", "GiB", "in", "20s">>,
                SizeMatch(2, "GiB", 10, "GiB", None, 20), None, None)

\* "TASK OK"
OkLine == Line(<<"TASK", "OK">>, None, None, None)

\* "TASK ERROR: restore failed"
ErrorLine == Line(<<"TASK", "ERROR:", "restore", "failed">>, None, None, None)

\* "transferred 3 GiB of 10 GiB (completed) in 30s": progress and terminal at once
DoneLine == Line(<<"transferred", "3", "GiB", "of", "10", "GiB", "completed", "in", "30s">>,
                 SizeMatch(3, "GiB", 10, "GiB", None, 30), None, None)

\* the lines a log source may yield
LogLines == {TickLine, NoiseLine, P10Line, P20Line, OkLine, ErrorLine, DoneLine}

\* the lines of the long runs
LongLogLines == {TickLine, P10Line, P20Line, OkLine}

UpidWord == <<"U", "P", "I", "D">>

\* UPID:n:1:2:A1234567:qmrestore:100:r: (log in the folder of its start field)
UpidA == <<UpidWord, <<"n">>, <<"1">>, <<"2">>,
           <<"A", "1", "2", "3", "4", "5", "6", "7">>,
           <<"q", "m">>, <<"1">>, <<"r">>, << >> >>

\* UPID:n:1:2:b0000000:pctrestore:101:r: (log found by the scan only)
UpidB == <<UpidWord, <<"n">>, <<"1">>, <<"2">>,
           <<"b", "0", "0", "0", "0", "0", "0", "0">>,
           <<"p", "c", "t">>, <<"1">>, <<"r">>, << >> >>

\* a malformed identifier (too few segments) whose file nevertheless exists
UpidShort == <<UpidWord, <<"n">>, <<"1">>, <<"2">>,
               <<"A", "0", "0", "0", "0", "0", "0", "0">> >>

Task(upid, action) == [upid |-> upid, action |-> action, status |-> "0"]

TaskA == Task(UpidA, "qmrestore")

TaskB == Task(UpidB, "pctrestore")

TaskShort == Task(UpidShort, "qmrestore")

FilesPresent == {[folder |-> "A", name |-> UpidA], [folder |-> "3", name |-> UpidB],
                 [folder |-> "A", name |-> UpidShort]}

TaskLists == {<< >>, <<TaskShort>>, <<TaskA, TaskB>>}

FileSets == {FilesPresent, {}}

----------------------------------------------------------------------------
(* The state machine.                                                       *)

\* the positions inside the try block of collect_monitoring_data
LoopPcs == {"pull", "parse", "estimate", "paint", "heartbeat", "detect"}

\* the positions of main and monitor_restore_task outside that try block
OuterPcs == {"main_select", "main_resolve", "monitor_resolve", "collect_init"}

\* one call of now_getter(): the values it may return
ClockValues == IF now_fn = "frozen" THEN {now} ELSE now..MaxNow

\* the task monitor_restore_task is called with
SelectedTask == choose_restore_task(restore_tasks)[1]

IdleLoop ==
    /\ line = TickLine
    /\ progress = None
    /\ points = << >>
    /\ recent_logs = << >>
    /\ last_seen_line = TickLine
    /\ last_speed = Zero
    /\ last_eta = Inf
    /\ previous_line_count = 0
    /\ last_output_time = 0

\* no logfile is followed
NoFollow ==
    /\ log_file = << >>
    /\ handle = None
    /\ yielded = << >>
    /\ existing = 0

IdleRun ==
    /\ now = 0
    /\ result = None
    /\ final_status = None
    /\ out = << >>
    /\ pulled = << >>
    /\ resolved = 0
    /\ signal = None

\* main(): sys.stdout (a terminal), the default interval and the monotonic clock
InitMain ==
    /\ entry = "main"
    /\ pc = "main_select"
    /\ restore_tasks \in TaskLists
    /\ files \in FileSets
    /\ log_supplied = FALSE
    /\ has_stream = TRUE
    /\ tty_mode = TRUE
    /\ update_interval = 1
    /\ now_fn = "monotonic"

\* monitor_restore_task(task, log_lines=lines): no stream, default interval
InitMonitorSupplied ==
    /\ entry = "monitor"
    /\ pc = "monitor_resolve"
    /\ restore_tasks \in {<<TaskA>>, <<TaskShort>>}
    /\ files \in FileSets
    /\ log_supplied = TRUE
    /\ has_stream = FALSE
    /\ tty_mode = FALSE
    /\ update_interval = 1
    /\ now_fn = "frozen"

\* monitor_restore_task(task, output_stream=pipe, update_interval_seconds=i, now_fn=f)
InitMonitorStream ==
    /\ entry = "monitor"
    /\ pc = "monitor_resolve"
    /\ restore_tasks = <<TaskA>>
    /\ files \in FileSets
    /\ log_supplied = FALSE
    /\ has_stream = TRUE
    /\ tty_mode = FALSE
    /\ update_interval \in {0, 1}
    /\ now_fn \in {"monotonic", "frozen"}

NoCall ==
    /\ fn_args = None
    /\ fn_ret = None

Init ==
    /\ InitMain \/ InitMonitorSupplied \/ InitMonitorStream
    /\ IdleRun
    /\ NoFollow
    /\ IdleLoop
    /\ NoCall

\* collect_monitoring_data(lines, output_stream=stream, update_interval_seconds=i,
\* now_fn=lambda: 0.0) called directly, on long logs
InitLong ==
    /\ entry = "collect"
    /\ pc = "collect_init"
    /\ restore_tasks = << >>
    /\ files = {}
    /\ log_supplied = TRUE
    /\ has_stream = TRUE
    /\ tty_mode = FALSE
    /\ update_interval \in {0, 1}
    /\ now_fn = "frozen"
    /\ IdleRun
    /\ NoFollow
    /\ IdleLoop
    /\ NoCall

\* main, lines 577-588: read, filter, choose
MainSelect ==
    /\ pc = "main_select"
    /\ IF choose_restore_task(restore_tasks) = None
       THEN /\ final_status' = Some("no-task")
            /\ pc' = "main_finally"
            /\ out' = out
       ELSE /\ final_status' = final_status
            /\ pc' = "main_resolve"
            /\ out' = Append(out, [kind |-> "print", text |-> "Monitoring restore task"])
    /\ UNCHANGED <<cfgVars, followVars, loopVars, fnVars, now, result, pulled, resolved, signal>>

\* main, lines 590-596: resolve the log path
MainResolve ==
    /\ pc = "main_resolve"
    /\ resolved' = resolved + 1
    /\ IF resolve_restore_logfile(SelectedTask, files) = None
       THEN /\ final_status' = Some("log-missing")
            /\ pc' = "main_finally"
            /\ out' = out
       ELSE /\ final_status' = final_status
            /\ pc' = "monitor_resolve"
            /\ out' = Append(out, [kind |-> "print", text |-> "Log file"])
    /\ UNCHANGED <<cfgVars, followVars, loopVars, fnVars, now, result, pulled, signal>>

\* MonitorResolve with a supplied line source used before the log path is checked
MonitorResolve_StreamFirst ==
    /\ pc = "monitor_resolve"
    /\ resolved' = resolved + 1
    /\ IF resolve_restore_logfile(SelectedTask, files) = None /\ ~log_supplied
       THEN /\ result' = Some([points |-> << >>, status |-> Some("log-missing")])
            /\ pc' = "returned"
       ELSE /\ result' = result
            /\ pc' = "collect_init"
    /\ UNCHANGED <<cfgVars, followVars, loopVars, fnVars, now, final_status, out, pulled, signal>>

\* monitor_restore_task, lines 544-549
MonitorResolve ==
    /\ pc = "monitor_resolve"
    /\ resolved' = resolved + 1
    /\ IF resolve_restore_logfile(SelectedTask, files) = None
       THEN /\ result' = Some([points |-> << >>, status |-> Some("log-missing")])
            /\ pc' = "returned"
       ELSE /\ result' = result
            /\ pc' = "collect_init"
    /\ UNCHANGED <<cfgVars, followVars, loopVars, fnVars, now, final_status, out, pulled, signal>>

\* collect_monitoring_data, lines 458-469
CollectInit ==
    /\ pc = "collect_init"
    /\ \E t \in ClockValues :
          /\ now' = t
          /\ last_output_time' = t
    /\ points' = << >>
    /\ recent_logs' = << >>
    /\ last_seen_line' = TickLine
    /\ last_speed' = Zero
    /\ last_eta' = Inf
    /\ previous_line_count' = 0
    /\ pc' = "pull"
    /\ UNCHANGED <<cfgVars, followVars, fnVars, line, progress, result, final_status, out,
                   pulled, resolved, signal>>

\* lines 472-475: the for statement pulls one line
Pull(limit, alphabet) ==
    /\ pc = "pull"
    /\ Len(pulled) < limit
    /\ \E l \in alphabet :
          /\ line' = l
          /\ pulled' = Append(pulled, l)
          /\ IF l.text # << >>
             THEN /\ last_seen_line' = l
                  /\ recent_logs' = deque_append(recent_logs, l)
             ELSE UNCHANGED <<last_seen_line, recent_logs>>
    /\ pc' = "parse"
    /\ UNCHANGED <<cfgVars, followVars, fnVars, progress, points, last_speed, last_eta,
                   previous_line_count, last_output_time, now, result,
                   final_status, out, resolved, signal>>

\* line 472 and 530: the log source is exhausted
Exhausted ==
    /\ pc = "pull"
    /\ result' = Some([points |-> points, status |-> None])
    /\ pc' = "returned"
    /\ UNCHANGED <<cfgVars, followVars, loopVars, fnVars, now, final_status, out, pulled, resolved, signal>>

\* lines 476-478 and 496-497: parse, append the sample
ParseAppend ==
    /\ pc = "parse"
    /\ progress' = parse_progress_line(line)
    /\ IF progress' # None
       THEN /\ points' = Append(points, progress'[1])
            /\ pc' = "estimate"
       ELSE /\ points' = points
            /\ pc' = "heartbeat"
    /\ UNCHANGED <<cfgVars, followVars, fnVars, line, recent_logs, last_seen_line, last_speed,
                   last_eta, previous_line_count, last_output_time, now, result,
                   final_status, out, pulled, resolved, signal>>

\* Estimate without the speed memory: calculate_eta_and_speed (previous speed 0.0)
Estimate_NoMemory ==
    /\ pc = "estimate"
    /\ LET r == calculate_eta_and_speed(points)
       IN  /\ last_speed' = r.speed
           /\ last_eta' = r.eta
    /\ pc' = "paint"
    /\ UNCHANGED <<cfgVars, followVars, fnVars, line, progress, points, recent_logs,
                   last_seen_line, previous_line_count, last_output_time, now,
                   result, final_status, out, pulled, resolved, signal>>

\* lines 479-481: update the estimator
Estimate ==
    /\ pc = "estimate"
    /\ LET r == calculate_eta_and_speed_with_memory(points, last_speed)
       IN  /\ last_speed' = r.speed
           /\ last_eta' = r.eta
    /\ pc' = "paint"
    /\ UNCHANGED <<cfgVars, followVars, fnVars, line, progress, points, recent_logs,
                   last_seen_line, previous_line_count, last_output_time, now,
                   result, final_status, out, pulled, resolved, signal>>

\* Paint followed by a continue: after the repaint of a fresh sample the
\* iteration ends, the line is never classified
Paint_ThenContinue ==
    /\ pc = "paint"
    /\ IF has_stream
       THEN LET lines == build_dashboard_lines(points, last_speed,
                             calculate_total_average_speed(points), last_eta,
                             recent_logs, FALSE, tty_mode)
            IN  /\ out' = Append(out, render_dashboard(lines, previous_line_count, tty_mode))
                /\ previous_line_count' = Len(lines)
       ELSE UNCHANGED <<out, previous_line_count>>
    /\ \E t \in ClockValues :
          /\ now' = t
          /\ last_output_time' = t
    /\ pc' = "pull"
    /\ UNCHANGED <<cfgVars, followVars, fnVars, line, progress, points, recent_logs,
                   last_seen_line, last_speed, last_eta, result, final_status,
                   pulled, resolved, signal>>

\* Paint throttled by the update interval like the heartbeat
Paint_Throttled ==
    /\ pc = "paint"
    /\ \E t \in ClockValues :
          /\ now' = t
          /\ IF has_stream /\ t - last_output_time >= update_interval
             THEN LET lines == build_dashboard_lines(points, last_speed,
                                   calculate_total_average_speed(points), last_eta,
                                   recent_logs, FALSE, tty_mode)
                  IN  /\ out' = Append(out, render_dashboard(lines, previous_line_count,
                                                             tty_mode))
                      /\ previous_line_count' = Len(lines)
                      /\ last_output_time' = t
             ELSE UNCHANGED <<out, previous_line_count, last_output_time>>
    /\ pc' = "heartbeat"
    /\ UNCHANGED <<cfgVars, followVars, fnVars, line, progress, points, recent_logs,
                   last_seen_line, last_speed, last_eta, result, final_status,
                   pulled, resolved, signal>>

\* lines 482-495: the repaint forced by a fresh sample
Paint ==
    /\ pc = "paint"
    /\ IF has_stream
       THEN LET lines == build_dashboard_lines(points, last_speed,
                             calculate_total_average_speed(points), last_eta,
                             recent_logs, FALSE, tty_mode)
            IN  /\ out' = Append(out, render_dashboard(lines, previous_line_count, tty_mode))
                /\ previous_line_count' = Len(lines)
       ELSE UNCHANGED <<out, previous_line_count>>
    /\ \E t \in ClockValues :
          /\ now' = t
          /\ last_output_time' = t
    /\ pc' = "heartbeat"
    /\ UNCHANGED <<cfgVars, followVars, fnVars, line, progress, points, recent_logs,
                   last_seen_line, last_speed, last_eta, result, final_status,
                   pulled, resolved, signal>>

\* Heartbeat that echoes the last seen line into the ring on every waiting redraw
Heartbeat_EchoLast ==
    /\ pc = "heartbeat"
    /\ \E current_time \in ClockValues :
          /\ now' = current_time
          /\ IF has_stream /\ current_time - last_output_time >= update_interval
             THEN LET logs == IF last_seen_line.text # << >>
                              THEN deque_append(recent_logs, last_seen_line)
                              ELSE recent_logs
                      lines == build_dashboard_lines(points, last_speed,
                                   calculate_total_average_speed(points), last_eta,
                                   logs, TRUE, tty_mode)
                  IN  /\ recent_logs' = logs
                      /\ out' = Append(out, render_dashboard(lines, previous_line_count,
                                                             tty_mode))
                      /\ previous_line_count' = Len(lines)
                      /\ last_output_time' = current_time
             ELSE UNCHANGED <<recent_logs, out, previous_line_count, last_output_time>>
    /\ pc' = "detect"
    /\ UNCHANGED <<cfgVars, followVars, fnVars, line, progress, points, last_seen_line,
                   last_speed, last_eta, result, final_status, pulled, resolved, signal>>

\* lines 499-518: the periodic "waiting log" repaint
Heartbeat ==
    /\ pc = "heartbeat"
    /\ \E current_time \in ClockValues :
          /\ now' = current_time
          /\ IF has_stream /\ current_time - last_output_time >= update_interval
             THEN LET logs == IF recent_logs = << >> /\ last_seen_line.text # << >>
                              THEN deque_append(recent_logs, last_seen_line)
                              ELSE recent_logs
                      lines == build_dashboard_lines(points, last_speed,
                                   calculate_total_average_speed(points), last_eta,
                                   logs, TRUE, tty_mode)
                  IN  /\ recent_logs' = logs
                      /\ out' = Append(out, render_dashboard(lines, previous_line_count,
                                                             tty_mode))
                      /\ previous_line_count' = Len(lines)
                      /\ last_output_time' = current_time
             ELSE UNCHANGED <<recent_logs, out, previous_line_count, last_output_time>>
    /\ pc' = "detect"
    /\ UNCHANGED <<cfgVars, followVars, fnVars, line, progress, points, last_seen_line,
                   last_speed, last_eta, result, final_status, pulled, resolved, signal>>

\* Detect with the status check skipped for a line that parsed as progress
Detect_OnlyNonProgress ==
    /\ pc = "detect"
    /\ LET terminal_status == detect_terminal_status(line)
       IN  IF terminal_status # None /\ progress = None
           THEN /\ result' = Some([points |-> points, status |-> terminal_status])
                /\ pc' = "returned"
           ELSE /\ result' = result
                /\ pc' = "pull"
    /\ UNCHANGED <<cfgVars, followVars, loopVars, fnVars, now, final_status, out, pulled, resolved, signal>>

\* lines 520-525: terminal status detection
Detect ==
    /\ pc = "detect"
    /\ LET terminal_status == detect_terminal_status(line)
       IN  IF terminal_status # None
           THEN /\ result' = Some([points |-> points, status |-> terminal_status])
                /\ pc' = "returned"
           ELSE /\ result' = result
                /\ pc' = "pull"
    /\ UNCHANGED <<cfgVars, followVars, loopVars, fnVars, now, final_status, out, pulled, resolved, signal>>

\* Interrupt returning a fresh empty list instead of the collected points
Interrupt_DropsHistory ==
    /\ pc \in LoopPcs
    /\ signal' = Some(pc)
    /\ result' = Some([points |-> << >>, status |-> Some("interrupted")])
    /\ pc' = "returned"
    /\ UNCHANGED <<cfgVars, followVars, loopVars, fnVars, now, final_status, out, pulled, resolved>>

\* lines 526-528: KeyboardInterrupt raised anywhere inside the try block
Interrupt ==
    /\ pc \in LoopPcs
    /\ signal' = Some(pc)
    /\ result' = Some([points |-> points, status |-> Some("interrupted")])
    /\ pc' = "returned"
    /\ UNCHANGED <<cfgVars, followVars, loopVars, fnVars, now, final_status, out, pulled, resolved>>

\* KeyboardInterrupt raised outside the try block: it propagates, through
\* main's finally clause when main is on the stack
Propagate ==
    /\ pc \in OuterPcs
    /\ signal' = Some(pc)
    /\ pc' = IF entry = "main" THEN "main_finally" ELSE "raised"
    /\ UNCHANGED <<cfgVars, followVars, loopVars, fnVars, now, result, final_status, out,
                   pulled, resolved>>

\* lines 550-557 and 598-603: the result travels back to the caller
Return ==
    /\ pc = "returned"
    /\ IF entry = "main"
       THEN /\ final_status' = result[1].status
            /\ pc' = "main_finally"
       ELSE /\ final_status' = final_status
            /\ pc' = "done"
    /\ UNCHANGED <<cfgVars, followVars, loopVars, fnVars, now, result, out, pulled, resolved, signal>>

\* main, lines 604-605: the finally clause
MainFinally ==
    /\ pc = "main_finally"
    /\ out' = Append(out, [kind |-> "print", text |-> map_final_status_message(final_status)])
    /\ pc' = "done"
    /\ UNCHANGED <<cfgVars, followVars, loopVars, fnVars, now, result, final_status, pulled, resolved, signal>>

Next ==
    \/ MainSelect
    \/ MainResolve
    \/ MonitorResolve
    \/ CollectInit
    \/ Pull(MaxLines, LogLines)
    \/ Exhausted
    \/ ParseAppend
    \/ Estimate
    \/ Paint
    \/ Heartbeat
    \/ Detect
    \/ Interrupt
    \/ Propagate
    \/ Return
    \/ MainFinally

Spec == Init /\ [][Next]_vars

\* the uninterrupted runs of the monitor loop on long logs
NextLong ==
    \/ CollectInit
    \/ Pull(MaxLongLines, LongLogLines)
    \/ ParseAppend
    \/ Estimate
    \/ Paint
    \/ Heartbeat
    \/ Detect
    \/ Return

SpecLong == InitLong /\ [][NextLong]_vars

----------------------------------------------------------------------------
(* The estimator as a pure function: Init draws the arguments, EtaCall      *)
(* applies calculate_eta_and_speed_with_memory to them.                     *)

\* (10, 2.0, 3.0), (20, 2.0, 3.0), (20, 4.0, 3.0), (30, 4.0, None)
EtaSamples == {Point(10, FromInt(2), Some(FromInt(3))),
               Point(20, FromInt(2), Some(FromInt(3))),
               Point(20, FromInt(4), Some(FromInt(3))),
               Point(30, FromInt(4), None)}

\* previous_speed: 0.0 and 0.2
EtaPreviousSpeeds == {Zero, Rat(1, 5)}

\* the sample lists of length 0..MaxPoints
EtaHistories == UNION {[1..k -> EtaSamples] : k \in 0..MaxPoints}

InitEta ==
    /\ entry = "estimator"
    /\ pc = "call"
    /\ restore_tasks = << >>
    /\ files = {}
    /\ log_supplied = FALSE
    /\ has_stream = FALSE
    /\ tty_mode = FALSE
    /\ update_interval = 1
    /\ now_fn = "frozen"
    /\ IdleRun
    /\ NoFollow
    /\ IdleLoop
    /\ fn_args \in [points : EtaHistories, previous_speed : EtaPreviousSpeeds]
    /\ fn_ret = None

EtaCall ==
    /\ pc = "call"
    /\ fn_ret' = Some(calculate_eta_and_speed_with_memory(fn_args.points,
                                                          fn_args.previous_speed))
    /\ pc' = "called"
    /\ UNCHANGED <<cfgVars, followVars, loopVars, now, result, final_status, out, pulled,
                   resolved, signal, fn_args>>

NextEta == EtaCall

SpecEta == InitEta /\ [][NextEta]_vars

----------------------------------------------------------------------------
(* The harness of parse_progress_line.  A line is a sequence of phrases,    *)
(* each a complete progress phrase of one pattern or a phrase no pattern    *)
(* matches; pattern.search finds the leftmost phrase of its own kind.       *)

\* most phrases in one line handed to parse_progress_line
MaxPhrases == 2

\* a phrase of the line: the pattern that matches it ("none" for plain text)
\* and the named groups of that match
Phrase(kind, groups) == [kind |-> kind, groups |-> groups]

\* the elapsed groups: "45s", "2m 0s", "1m 31s", and "1M 31S" as IGNORECASE admits
ParseElapsedTexts == {Elapsed(None, 45), Elapsed(Some(2), 0), Elapsed(Some(1), 31),
                      ElapsedText(Some(1), "M", 31, "S")}

\* "transferred 1024 <unit> of 2048 <total_unit> (50%) in <elapsed>"
SizePhrases ==
    {Phrase("size_with_total",
            [transferred |-> FromInt(1024), unit |-> u, total |-> FromInt(2048),
             total_unit |-> tu, elapsed |-> e]) :
        u \in {"GiB", "MiB", "mib"}, tu \in {"GiB", "MiB"}, e \in ParseElapsedTexts}

\* "progress 50% (read 1073741824 bytes, zeroes = 10% (...), duration 100 sec)"
\* and "progress 0% (read 0 bytes, ..., duration 1 sec)"
BytesPhrases ==
    {Phrase("qmrestore_bytes_progress",
            [percent |-> FromInt(50), read_bytes |-> 1073741824, duration_seconds |-> 100]),
     Phrase("qmrestore_bytes_progress",
            [percent |-> Zero, read_bytes |-> 0, duration_seconds |-> 1])}

\* "transferred 37.5% in 45s" and "transferred 37.5% in 2m 0s"
PercentPhrases ==
    {Phrase("percent_only", [percent |-> Rat(75, 2), elapsed |-> e]) :
        e \in {Elapsed(None, 45), Elapsed(Some(2), 0)}}

\* "starting VM restore task"
PlainPhrase == Phrase("none", [words |-> <<"starting", "VM", "restore", "task">>])

ParsePhrases == SizePhrases \cup BytesPhrases \cup PercentPhrases \cup {PlainPhrase}

\* the lines of 0..MaxPhrases phrases
ParseLines == UNION {[1..k -> ParsePhrases] : k \in 0..MaxPhrases}

\* the places of the phrases a pattern matches
MatchPlaces(pattern_name, phrases) ==
    {i \in 1..Len(phrases) : phrases[i].kind = pattern_name}

\* pattern.search(line): None, or the groups of the leftmost match
search(pattern_name, phrases) ==
    IF MatchPlaces(pattern_name, phrases) = {} THEN None
    ELSE LET start == CHOOSE i \in MatchPlaces(pattern_name, phrases) :
                          \A j \in MatchPlaces(pattern_name, phrases) : i <= j
         IN  Some(phrases[start].groups)

\* the line as parse_progress_line sees it
PhraseLine(phrases) == Line(phrases, search("size_with_total", phrases),
                            search("qmrestore_bytes_progress", phrases),
                            search("percent_only", phrases))

InitParse ==
    /\ entry = "parse_progress_line"
    /\ pc = "call"
    /\ restore_tasks = << >>
    /\ files = {}
    /\ log_supplied = FALSE
    /\ has_stream = FALSE
    /\ tty_mode = FALSE
    /\ update_interval = 1
    /\ now_fn = "frozen"
    /\ IdleRun
    /\ NoFollow
    /\ IdleLoop
    /\ fn_args \in [line : ParseLines]
    /\ fn_ret = None

ParseCall ==
    /\ pc = "call"
    /\ entry = "parse_progress_line"
    /\ fn_ret' = Some(parse_progress_line(PhraseLine(fn_args.line)))
    /\ pc' = "called"
    /\ UNCHANGED <<cfgVars, followVars, loopVars, now, result, final_status, out, pulled,
                   resolved, signal, fn_args>>

NextParse == ParseCall

SpecParse == InitParse /\ [][NextParse]_vars

----------------------------------------------------------------------------
(* The harness of detect_terminal_status.                                   *)

\* most words in one line handed to detect_terminal_status
MaxWords == 3

\* the words of the lines: the six keywords in several letter cases, and a
\* word of no keyword
DetectWords == {"TASK", "task", "OK", "ok", "ERROR", "Error", "FAILED", "failed",
                "Aborted", "COMPLETED", "completed", "Success", "restore"}

\* the lines of 0..MaxWords words; << >> is the empty poll tick
DetectLines == UNION {[1..k -> DetectWords] : k \in 0..MaxWords}

InitDetect ==
    /\ entry = "detect_terminal_status"
    /\ pc = "call"
    /\ restore_tasks = << >>
    /\ files = {}
    /\ log_supplied = FALSE
    /\ has_stream = FALSE
    /\ tty_mode = FALSE
    /\ update_interval = 1
    /\ now_fn = "frozen"
    /\ IdleRun
    /\ NoFollow
    /\ IdleLoop
    /\ fn_args \in [line : DetectLines]
    /\ fn_ret = None

DetectCall ==
    /\ pc = "call"
    /\ entry = "detect_terminal_status"
    /\ fn_ret' = Some(detect_terminal_status(Line(fn_args.line, None, None, None)))
    /\ pc' = "called"
    /\ UNCHANGED <<cfgVars, followVars, loopVars, now, result, final_status, out, pulled,
                   resolved, signal, fn_args>>

NextDetect == DetectCall

SpecDetect == InitDetect /\ [][NextDetect]_vars

----------------------------------------------------------------------------
(* The harness of find_task_logfile.                                        *)

\* most ":"-separated segments of an identifier handed to find_task_logfile
MaxSegments == 10

\* the first segment: "UPID" and "upid"
FindPrefixes == {UpidWord, <<"u", "p", "i", "d">>}

\* the start field: A1234567, b0000000, G0000000 (not hexadecimal), A123456
\* (7 characters) and the empty field
FindStarts == {<<"A", "1", "2", "3", "4", "5", "6", "7">>,
               <<"b", "0", "0", "0", "0", "0", "0", "0">>,
               <<"G", "0", "0", "0", "0", "0", "0", "0">>,
               <<"A", "1", "2", "3", "4", "5", "6">>,
               << >>}

\* upid_str.split(":") of an identifier of n segments
UpidOf(prefix, pstart, n) ==
    [i \in 1..n |-> CASE i = 1 -> prefix
                      [] i = 2 -> <<"n">>
                      [] i = 5 -> pstart
                      [] i = 6 -> <<"q", "m">>
                      [] OTHER -> <<"1">>]

FindUpids == {UpidOf(prefix, pstart, n) :
                 prefix \in FindPrefixes, pstart \in FindStarts, n \in 4..MaxSegments}

\* the subdirectories of the tasks root that may hold a file of the name
FindFolders == {"0", "3", "A", "B", "F"}

TreesOf(upid) == {{[folder |-> f, name |-> upid] : f \in held} : held \in SUBSET FindFolders}

InitFind ==
    /\ entry = "find_task_logfile"
    /\ pc = "call"
    /\ restore_tasks = << >>
    /\ files = {}
    /\ log_supplied = FALSE
    /\ has_stream = FALSE
    /\ tty_mode = FALSE
    /\ update_interval = 1
    /\ now_fn = "frozen"
    /\ IdleRun
    /\ NoFollow
    /\ IdleLoop
    /\ \E upid \in FindUpids : fn_args \in [upid_str : {upid}, tree : TreesOf(upid)]
    /\ fn_ret = None

FindCall ==
    /\ pc = "call"
    /\ entry = "find_task_logfile"
    /\ fn_ret' = Some([value |-> find_task_logfile(fn_args.upid_str, fn_args.tree),
                       probed |-> find_task_logfile_probes(fn_args.upid_str, fn_args.tree)])
    /\ pc' = "called"
    /\ UNCHANGED <<cfgVars, followVars, loopVars, now, result, final_status, out, pulled,
                   resolved, signal, fn_args>>

NextFind == FindCall

SpecFind == InitFind /\ [][NextFind]_vars

----------------------------------------------------------------------------
(* The harness of read_active_tasks.                                        *)

\* most lines of an index file handed to read_active_tasks
MaxIndexLines == 2

\* "UPID:n:1:2:3:qm:7:r:" as characters
IndexUpid == <<"U", "P", "I", "D", ":", "n", ":", "1", ":", "2", ":", "3", ":",
               "q", "m", ":", "7", ":", "r", ":">>

\* a line of the index: leading blanks, identifier, separator, status token,
\* each possibly absent, and the line end
IndexLineOf(lead, ident, sep, status) == lead \o ident \o sep \o status \o <<"\n">>

IndexLines ==
    {IndexLineOf(lead, ident, sep, status) :
        lead \in {<< >>, <<" ">>},
        ident \in {<< >>, IndexUpid},
        sep \in {<< >>, <<" ">>, <<" ", " ">>, <<"\t">>},
        status \in {<< >>, <<"0">>, <<"O", "K">>}}

\* the index files: missing, or 0..MaxIndexLines lines
IndexFiles ==
    {[exists |-> FALSE, lines |-> << >>]} \cup
    {[exists |-> TRUE, lines |-> ls] :
        ls \in UNION {[1..k -> IndexLines] : k \in 0..MaxIndexLines}}

InitIndex ==
    /\ entry = "read_active_tasks"
    /\ pc = "call"
    /\ restore_tasks = << >>
    /\ files = {}
    /\ log_supplied = FALSE
    /\ has_stream = FALSE
    /\ tty_mode = FALSE
    /\ update_interval = 1
    /\ now_fn = "frozen"
    /\ IdleRun
    /\ NoFollow
    /\ IdleLoop
    /\ fn_args \in [index : IndexFiles]
    /\ fn_ret = None

IndexCall ==
    /\ pc = "call"
    /\ entry = "read_active_tasks"
    /\ fn_ret' = Some(read_active_tasks(fn_args.index))
    /\ pc' = "called"
    /\ UNCHANGED <<cfgVars, followVars, loopVars, now, result, final_status, out, pulled,
                   resolved, signal, fn_args>>

NextIndex == IndexCall

SpecIndex == InitIndex /\ [][NextIndex]_vars

----------------------------------------------------------------------------
(* The harness of task selection: main, lines 577-581.                      *)

\* most records in the list handed to filter_restore_tasks
MaxTasks == 3

\* action qmrestore, named in the identifier too
RestoreRecord ==
    [upid |-> <<"U", ":", "q", "m", "r", "e", "s", "t", "o", "r", "e", ":">>,
     action |-> <<"q", "m", "r", "e", "s", "t", "o", "r", "e">>, status |-> <<"0">>,
     raw |-> <<"U", ":", "q", "m", "r", "e", "s", "t", "o", "r", "e", ":", " ", "0">>]

\* action PCTRESTORE, a marker only once lowered; no keyword in the text
ActionOnlyRecord ==
    [upid |-> <<"U", ":", "x", ":">>,
     action |-> <<"P", "C", "T", "R", "E", "S", "T", "O", "R", "E">>, status |-> <<"0">>,
     raw |-> <<"U", ":", "x", ":", " ", "0">>]

\* action qmstart, the keyword "Backup" in the raw line only
KeywordRecord ==
    [upid |-> <<"U", ":", "q", "m", "s", "t", "a", "r", "t", ":">>,
     action |-> <<"q", "m", "s", "t", "a", "r", "t">>, status |-> <<"0">>,
     raw |-> <<"U", ":", "q", "m", "s", "t", "a", "r", "t", ":", " ", "0", " ", "B", "a", "c", "k", "u", "p">>]

\* action vzdump: neither a restore action nor a keyword
DumpRecord ==
    [upid |-> <<"U", ":", "v", "z", "d", "u", "m", "p", ":">>,
     action |-> <<"v", "z", "d", "u", "m", "p">>, status |-> <<"0">>,
     raw |-> <<"U", ":", "v", "z", "d", "u", "m", "p", ":", " ", "0">>]

\* action qmstart without keyword
StartRecord ==
    [upid |-> <<"U", ":", "q", "m", "s", "t", "a", "r", "t", ":">>,
     action |-> <<"q", "m", "s", "t", "a", "r", "t">>, status |-> <<"0">>,
     raw |-> <<"U", ":", "q", "m", "s", "t", "a", "r", "t", ":", " ", "0">>]

SelectRecords == {RestoreRecord, ActionOnlyRecord, KeywordRecord, DumpRecord, StartRecord}

\* the lists of 0..MaxTasks active tasks
SelectLists == UNION {[1..k -> SelectRecords] : k \in 0..MaxTasks}

InitSelect ==
    /\ entry = "select"
    /\ pc = "call"
    /\ restore_tasks = << >>
    /\ files = {}
    /\ log_supplied = FALSE
    /\ has_stream = FALSE
    /\ tty_mode = FALSE
    /\ update_interval = 1
    /\ now_fn = "frozen"
    /\ IdleRun
    /\ NoFollow
    /\ IdleLoop
    /\ fn_args \in [tasks : SelectLists]
    /\ fn_ret = None

\* restore_tasks = filter_restore_tasks(active_tasks);
\* selected_task = choose_restore_task(restore_tasks)
SelectCall ==
    /\ pc = "call"
    /\ entry = "select"
    /\ LET filtered == filter_restore_tasks(fn_args.tasks)
       IN  fn_ret' = Some([restore_tasks |-> filtered,
                           selected_task |-> choose_restore_task(filtered)])
    /\ pc' = "called"
    /\ UNCHANGED <<cfgVars, followVars, loopVars, now, result, final_status, out, pulled,
                   resolved, signal, fn_args>>

NextSelect == SelectCall

SpecSelect == InitSelect /\ [][NextSelect]_vars



----------------------------------------------------------------------------
(* Properties of the monitor loop, monitor_restore_task and main.           *)

\* the samples of the lines of a log that parse as progress, in log order
RECURSIVE SamplesOf(_)
SamplesOf(log) ==
    IF log = << >> THEN << >>
    ELSE LET rest == SamplesOf(SubSeq(log, 1, Len(log) - 1))
             sample == parse_progress_line(log[Len(log)])
         IN  IF sample = None THEN rest ELSE Append(rest, sample[1])

\* the non-empty lines of a log, in log order
NonEmptyOf(log) == SelectSeq(log, LAMBDA l : l.text # << >>)

\* the positions of a run after collect_monitoring_data has returned
AfterLoop == {"returned", "main_finally", "done"}

\* the run ended with a status detected on a log line
EndedByLine ==
    /\ result # None
    /\ result[1].status \in {Some("success"), Some("failure")}

\* C1, as a state predicate: while the loop runs, no line before the current
\* one was classified success or failure; once the loop has returned success
\* or failure, the classified line is the last line pulled, its class is the
\* status returned, and the history returned is exactly the samples of the
\* lines pulled up to and including it.
TerminalLineIsLast ==
    /\ pc \in LoopPcs \cup AfterLoop =>
          \A i \in 1..(Len(pulled) - 1) : detect_terminal_status(pulled[i]) = None
    /\ pc \in LoopPcs \ {"pull"} /\ Len(pulled) > 0 => line = pulled[Len(pulled)]
    /\ pc = "pull" /\ Len(pulled) > 0 =>
          detect_terminal_status(pulled[Len(pulled)]) = None
    /\ EndedByLine =>
          /\ pulled # << >>
          /\ detect_terminal_status(pulled[Len(pulled)]) = result[1].status
          /\ result[1].points = SamplesOf(pulled)

\* C1, as a step predicate: once a status is returned it is never set again,
\* no further line is pulled and no sample is appended.
StatusSetOnce ==
    result # None => /\ result' = result
                     /\ pulled' = pulled
                     /\ points' = points

\* C1: in collect_monitoring_data the terminal status is set at most once per
\* run; as soon as a pulled line is classified success or failure the loop
\* returns that status, pulls no further line, and no progress sample of a
\* later line is ever appended to the history.
C1_TerminalStatusOnce == [](TerminalLineIsLast) /\ [][StatusSetOnce]_vars

\* C1 witness: two samples, then "TASK OK" ends the run with status success
C1_Witness ==
    /\ pc = "done"
    /\ result # None
    /\ result[1].status = Some("success")
    /\ Len(result[1].points) = 2
    /\ Len(pulled) = 3

\* the summary line main must print for the way the run ended
ExpectedSummary ==
    IF signal # None /\ signal[1] \in OuterPcs THEN "Final status: unknown"
    ELSE IF result # None
    THEN CASE result[1].status = None -> "Final status: unknown"
           [] result[1].status = Some("success") -> "Final status: success"
           [] result[1].status = Some("failure") -> "Final status: failure"
           [] result[1].status = Some("interrupted") -> "Final status: interrupted"
           [] result[1].status = Some("log-missing") -> "Final status: log-missing"
    ELSE IF restore_tasks = << >> THEN "Final status: no-task"
    ELSE "Final status: log-missing"

SummaryLines == {"Final status: success", "Final status: failure",
                 "Final status: interrupted", "Final status: no-task",
                 "Final status: log-missing", "Final status: unknown"}

\* the places of the summary lines in the output
SummaryPlaces ==
    {i \in 1..Len(out) : out[i].kind = "print" /\ out[i].text \in SummaryLines}

\* C2: every execution of main prints exactly one line 'Final status:
\* <status>', it is the last line written to standard output, and it names
\* the terminal status the run reached, on every path (no task, log missing,
\* success, failure, interruption, log source exhausted).
C2_OneFinalSummaryLine ==
    entry = "main" =>
        /\ pc # "done" => SummaryPlaces = {}
        /\ pc = "done" =>
              /\ SummaryPlaces = {Len(out)}
              /\ out[Len(out)].text = ExpectedSummary

\* C2 witness: main painted the dashboard, was interrupted in the loop and
\* printed 'Final status: interrupted' last
C2_Witness ==
    /\ entry = "main"
    /\ pc = "done"
    /\ Len(out) >= 4
    /\ out[Len(out) - 1].kind = "frame"
    /\ out[Len(out)].text = "Final status: interrupted"

\* the log path of the selected task cannot be resolved
LogUnresolved ==
    /\ restore_tasks # << >>
    /\ resolve_restore_logfile(SelectedTask, files) = None

\* no KeyboardInterrupt arrived outside the monitor loop
NoOuterSignal == signal = None

\* C3: absent-input conditions end the run as a terminal status: with an
\* empty filtered task list the run ends in no-task without resolving any log
\* path; with an unresolvable log path it ends in log-missing with an empty
\* sample list and without pulling a line from the log source, also when a
\* line source was supplied to monitor_restore_task.
C3_AbsentInputIsAStatus ==
    /\ entry = "main" /\ restore_tasks = << >> =>
          /\ resolved = 0
          /\ pulled = << >>
          /\ pc \in {"main_select", "main_finally", "done"}
          /\ pc # "main_select" /\ NoOuterSignal => final_status = Some("no-task")
    /\ LogUnresolved =>
          /\ pulled = << >>
          /\ points = << >>
          /\ pc \notin LoopPcs \cup {"collect_init"}
          /\ result # None =>
                result[1] = [points |-> << >>, status |-> Some("log-missing")]
          /\ pc = "done" /\ NoOuterSignal =>
                IF entry = "main" THEN final_status = Some("log-missing")
                ELSE result # None

\* C3 witness: monitor_restore_task was given a line source and a task whose
\* log cannot be resolved, and returned log-missing
C3_Witness ==
    /\ entry = "monitor"
    /\ log_supplied
    /\ LogUnresolved
    /\ pc = "done"
    /\ result = Some([points |-> << >>, status |-> Some("log-missing")])

\* the samples appended when KeyboardInterrupt arrives at position p: at
\* "parse" the line just pulled has not been parsed yet
AppendedBefore(p) ==
    IF p = "parse" THEN SamplesOf(SubSeq(pulled, 1, Len(pulled) - 1))
    ELSE SamplesOf(pulled)

\* C4: a user interruption raised at any point while collect_monitoring_data
\* iterates the log source ends the loop with status 'interrupted', and the
\* returned history is exactly the samples appended before the interruption.
C4_InterruptKeepsHistory ==
    signal # None /\ signal[1] \in LoopPcs =>
        /\ result # None
        /\ result[1].status = Some("interrupted")
        /\ result[1].points = AppendedBefore(signal[1])
        /\ pc \in AfterLoop

\* C4 witness: interrupted between the append of the second sample and the
\* estimator update
C4_Witness ==
    /\ signal = Some("estimate")
    /\ result # None
    /\ Len(result[1].points) = 2
    /\ result[1].status = Some("interrupted")

\* C5, as claimed: the stored history is strictly increasing in
\* elapsedSeconds (a sample not later than the last stored one is rejected).
C5_HistoryOrdered ==
    \A i \in 1..(Len(points) - 1) : points[i].elapsed < points[i + 1].elapsed


----------------------------------------------------------------------------
(* Properties of the sample history and the dashboard, on long logs.        *)

\* C6, as claimed: the number of stored samples never exceeds a fixed
\* capacity (the 6 samples of the estimator's window), however many progress
\* lines the log produces.
C6_HistoryBounded == Len(points) <= 6

\* the log lines a frame shows, oldest first
ShownTexts(frame_lines) ==
    [i \in 1..(Len(frame_lines) - 1) |-> frame_lines[i + 1].text]

\* the texts of the last min(5, n) of n lines
LastFiveTexts(log) ==
    LET shown == LastK(log, 5) IN [i \in 1..Len(shown) |-> shown[i].text]

\* one status line, then exactly the last min(5, n) of the given lines
IsDashboardOf(frame_lines, log) ==
    /\ Len(frame_lines) = 1 + Min(5, Len(log))
    /\ frame_lines[1].role = "status"
    /\ \A i \in 2..Len(frame_lines) : frame_lines[i].role = "log"
    /\ ShownTexts(frame_lines) = LastFiveTexts(log)

\* C7, the ring and build_dashboard_lines: the ring holds exactly the last
\* min(5, n) non-empty lines pulled, oldest first, and build_dashboard_lines
\* on all n non-empty lines pulled returns 1 + min(5, n) lines
RingAndDashboard ==
    /\ Len(recent_logs) <= 5
    /\ recent_logs = LastK(NonEmptyOf(pulled), 5)
    /\ IsDashboardOf(build_dashboard_lines(points, last_speed,
                         calculate_total_average_speed(points), last_eta,
                         NonEmptyOf(pulled), FALSE, FALSE),
                     NonEmptyOf(pulled))

\* C7, each step: a repaint writes one status line and the last min(5, n)
\* non-empty lines pulled so far; a full ring that changes lost its oldest line
RepaintAndEviction ==
    /\ out' # out /\ out'[Len(out')].kind = "frame" =>
          IsDashboardOf(out'[Len(out')].lines, NonEmptyOf(pulled'))
    /\ Len(recent_logs) = 5 /\ recent_logs' # recent_logs =>
          /\ Len(recent_logs') = 5
          /\ \A i \in 1..4 : recent_logs'[i] = recent_logs[i + 1]
          /\ recent_logs'[5] = pulled'[Len(pulled')]

----------------------------------------------------------------------------
(* Properties of calculate_eta_and_speed_with_memory.                       *)

EtaPoints == fn_args.points

EtaPrevious == fn_args.previous_speed

EtaResult == fn_ret[1]

\* pair i is the pair of samples i and i + 1; the pairs among the last 6 samples
WindowPairs(pts) == {i \in 1..(Len(pts) - 1) : i >= Len(pts) - 5}

\* the pairs whose elapsed delta and value delta are both positive
PositivePairs(pts) ==
    {i \in WindowPairs(pts) :
        /\ pts[i + 1].elapsed > pts[i].elapsed
        /\ ~RLeq(pts[i + 1].value, pts[i].value)}

RECURSIVE SumElapsedDeltas(_, _)
SumElapsedDeltas(pts, pairs) ==
    IF pairs = {} THEN 0
    ELSE LET i == CHOOSE k \in pairs : TRUE
         IN  (pts[i + 1].elapsed - pts[i].elapsed) + SumElapsedDeltas(pts, pairs \ {i})

RECURSIVE SumValueDeltas(_, _)
SumValueDeltas(pts, pairs) ==
    IF pairs = {} THEN Zero
    ELSE LET i == CHOOSE k \in pairs : TRUE
         IN  RAdd(RSub(pts[i + 1].value, pts[i].value), SumValueDeltas(pts, pairs \ {i}))

\* C8: for every history with fewer than 2 samples (empty or a single
\* sample, with or without a known total) calculate_eta_and_speed_with_memory
\* returns speed equal to previousSpeed (0 when none is given) and an
\* infinite ETA.
C8_FewerThanTwoSamples ==
    pc = "called" /\ Len(EtaPoints) < 2 =>
        /\ EtaResult.speed = EtaPrevious
        /\ IsInf(EtaResult.eta)
        /\ calculate_eta_and_speed(EtaPoints) = [speed |-> Zero, eta |-> Inf]

\* C8 witness: a single sample with a known total and a positive previous speed
C8_Witness ==
    /\ pc = "called"
    /\ Len(EtaPoints) = 1
    /\ EtaPoints[1].total # None
    /\ RPos(EtaPrevious)
    /\ EtaResult.speed = EtaPrevious

\* C9: with 2 or more samples the speed returned is (sum of value deltas) /
\* (sum of elapsed deltas) over exactly the consecutive pairs among the last 6
\* samples whose elapsed delta and value delta are both positive; other pairs
\* and older samples contribute nothing.  (With no such pair there is no
\* quotient: that case is C10.)
C9_SpeedOverPositivePairs ==
    pc = "called" /\ Len(EtaPoints) >= 2 /\ PositivePairs(EtaPoints) # {} =>
        /\ SumElapsedDeltas(EtaPoints, PositivePairs(EtaPoints)) > 0
        /\ EtaResult.speed =
              RDiv(SumValueDeltas(EtaPoints, PositivePairs(EtaPoints)),
                   FromInt(SumElapsedDeltas(EtaPoints, PositivePairs(EtaPoints))))

\* C9 witness: 7 samples; the oldest pair has positive deltas but lies outside
\* the window; inside the window one pair counts and another does not
C9_Witness ==
    /\ pc = "called"
    /\ Len(EtaPoints) = 7
    /\ EtaPoints[2].elapsed > EtaPoints[1].elapsed
    /\ ~RLeq(EtaPoints[2].value, EtaPoints[1].value)
    /\ PositivePairs(EtaPoints) # {}
    /\ PositivePairs(EtaPoints) # WindowPairs(EtaPoints)
    /\ EtaResult.speed # EtaPrevious

\* max(total - latestValue, 0)
Remaining(latest) ==
    IF RLeq(latest.total[1], latest.value) THEN Zero
    ELSE RSub(latest.total[1], latest.value)

\* C10: stall case: when no consecutive pair of the trailing window has both
\* a positive elapsed delta and a positive value delta, the speed returned is
\* previousSpeed and the ETA is computed from that retained speed: remaining /
\* previousSpeed when the total is known and previousSpeed > 0, else infinite.
C10_StallKeepsPreviousSpeed ==
    pc = "called" /\ Len(EtaPoints) >= 2 /\ PositivePairs(EtaPoints) = {} =>
        LET latest == EtaPoints[Len(EtaPoints)]
        IN  /\ EtaResult.speed = EtaPrevious
            /\ IF latest.total # None /\ RPos(EtaPrevious)
               THEN EtaResult.eta = RDiv(Remaining(latest), EtaPrevious)
               ELSE IsInf(EtaResult.eta)

\* C10 witness: (10, 2, 3), (20, 2, 3) with previous speed 0.2: speed 0.2, ETA 5
C10_Witness ==
    /\ pc = "called"
    /\ Len(EtaPoints) = 2
    /\ PositivePairs(EtaPoints) = {}
    /\ EtaPrevious = Rat(1, 5)
    /\ EtaResult.speed = Rat(1, 5)
    /\ EtaResult.eta = FromInt(5)

\* C11: with 2 or more samples the ETA is infinite exactly when the latest
\* sample's total is absent or the speed returned is not positive; otherwise
\* the ETA is max(total - latestValue, 0) / speed: never negative, and 0
\* whenever latestValue is at or beyond total.
C11_EtaFromRemaining ==
    pc = "called" /\ Len(EtaPoints) >= 2 =>
        LET latest == EtaPoints[Len(EtaPoints)]
            speed == EtaResult.speed
            unknown == latest.total = None \/ ~RPos(speed)
        IN  /\ IsInf(EtaResult.eta) <=> unknown
            /\ ~unknown =>
                  /\ EtaResult.eta = RDiv(Remaining(latest), speed)
                  /\ EtaResult.eta.n >= 0 /\ EtaResult.eta.d > 0
                  /\ (RLeq(latest.total[1], latest.value) => EtaResult.eta = Zero)

\* C11 witness: the latest sample (20, 4, 3) is beyond its total, the speed is
\* positive and the ETA is 0
C11_Witness ==
    /\ pc = "called"
    /\ Len(EtaPoints) >= 2
    /\ EtaPoints[Len(EtaPoints)] = Point(20, FromInt(4), Some(FromInt(3)))
    /\ RPos(EtaResult.speed)
    /\ EtaResult.eta = Zero

\* C12: across the whole run of collect_monitoring_data last_speed is never
\* negative, and once it has become positive no later step (a stalled,
\* duplicate or replayed progress line, a poll tick) returns it to zero.
C12_SpeedNeverResets ==
    /\ [](last_speed.d > 0 /\ last_speed.n >= 0)
    /\ [][RPos(last_speed) => RPos(last_speed')]_vars

\* C12 witness: 8 samples, the last 6 of them a stall (no pair of the window
\* has positive deltas), and the speed measured before the stall is still shown
C12_Witness ==
    /\ pc = "paint"
    /\ Len(points) >= 8
    /\ PositivePairs(points) = {}
    /\ points[1].elapsed < points[2].elapsed
    /\ RPos(last_speed)

----------------------------------------------------------------------------
(* Properties of parse_progress_line.                                       *)

ParsedPhrases == fn_args.line

ParseResult == fn_ret[1]

\* the leftmost phrase a pattern matches
FirstPhrase(pattern_name, phrases) ==
    phrases[CHOOSE i \in MatchPlaces(pattern_name, phrases) :
                \A j \in MatchPlaces(pattern_name, phrases) : i <= j]

\* the sample of a phrase standing alone
SampleOfPhrase(phrase) == parse_progress_line(PhraseLine(<<phrase>>))

\* the earliest pattern, in the order of the list, that matches somewhere
WinningPattern(phrases) ==
    IF MatchPlaces("size_with_total", phrases) # {} THEN "size_with_total"
    ELSE IF MatchPlaces("qmrestore_bytes_progress", phrases) # {}
    THEN "qmrestore_bytes_progress"
    ELSE IF MatchPlaces("percent_only", phrases) # {} THEN "percent_only"
    ELSE "none"

\* C13: parse_progress_line tries the patterns in the order size_with_total,
\* bytes_progress, percent_only and returns the sample of the first pattern
\* that matches anywhere in the line: with several patterns matching, the
\* earliest pattern in that order wins, wherever its match lies in the line;
\* a line matched by none yields none.
C13_FirstPatternInOrderWins ==
    pc = "called" /\ entry = "parse_progress_line" =>
        LET winner == WinningPattern(ParsedPhrases)
        IN  IF winner = "none"
            THEN ParseResult = None
            ELSE /\ ParseResult # None
                 /\ ParseResult = SampleOfPhrase(FirstPhrase(winner, ParsedPhrases))

\* C13 witness: "transferred 37.5% in 45s transferred 1024 MiB of 2048 MiB in
\* 2m 0s": percent_only matches leftmost, the size_with_total sample is returned
C13_Witness ==
    /\ pc = "called"
    /\ entry = "parse_progress_line"
    /\ Len(ParsedPhrases) = 2
    /\ ParsedPhrases[1].kind = "percent_only"
    /\ ParsedPhrases[2].kind = "size_with_total"
    /\ ParseResult = Some(Point(120, FromInt(1), Some(FromInt(2))))
    /\ ParseResult # SampleOfPhrase(ParsedPhrases[1])

\* a figure normalised to GiB according to its own unit
InGiB(figure, unit) ==
    IF unit \in {"MiB", "mib", "MIB"} THEN RDiv(figure, FromInt(1024)) ELSE figure

\* C14: for a size_with_total line the sample has elapsed = minutes * 60 +
\* seconds (minutes = 0 when the minutes group is absent), and value and total
\* are each normalised to GiB according to their own unit, also when the two
\* figures carry different units.
C14_SizeWithTotalSample ==
    pc = "called" /\ entry = "parse_progress_line"
                  /\ MatchPlaces("size_with_total", ParsedPhrases) # {} =>
        LET m == FirstPhrase("size_with_total", ParsedPhrases).groups
            minutes == IF m.elapsed.minutes = None THEN 0 ELSE m.elapsed.minutes[1]
        IN  ParseResult = Some(Point(minutes * 60 + m.elapsed.seconds,
                                     InGiB(m.transferred, m.unit),
                                     Some(InGiB(m.total, m.total_unit))))

----------------------------------------------------------------------------
(* Properties of detect_terminal_status.                                    *)

DetectedWords == fn_args.line

DetectResult == fn_ret[1]

\* the spellings of the keywords' words, in any letter case
Spelt(word) ==
    CASE word = "task" -> {"TASK", "Task", "task"}
      [] word = "ok" -> {"OK", "Ok", "ok"}
      [] word = "error" -> {"ERROR", "Error", "error"}
      [] word = "failed" -> {"FAILED", "Failed", "failed"}
      [] word = "aborted" -> {"ABORTED", "Aborted", "aborted"}
      [] word = "completed" -> {"COMPLETED", "Completed", "completed"}
      [] word = "success" -> {"SUCCESS", "Success", "success"}

\* the one-word keyword occurs in the line, in any letter case
HasWord(text, word) == \E i \in 1..Len(text) : text[i] \in Spelt(word)

\* the two-word keyword occurs in the line, in any letter case
HasPair(text, first, second) ==
    \E i \in 1..(Len(text) - 1) : text[i] \in Spelt(first) /\ text[i + 1] \in Spelt(second)

HasFailureKeyword(text) ==
    HasPair(text, "task", "error") \/ HasWord(text, "failed") \/ HasWord(text, "aborted")

HasSuccessKeyword(text) ==
    HasPair(text, "task", "ok") \/ HasWord(text, "completed") \/ HasWord(text, "success")

\* C15: detect_terminal_status checks the failure keywords before the success
\* keywords on the lowercased line: a line containing "task error", "failed" or
\* "aborted" in any letter case is failure even if it also contains "task ok",
\* "completed" or "success"; a line with success keywords only is success; a
\* line with none of the six keywords (the empty poll tick too) is none.
C15_FailureBeforeSuccess ==
    pc = "called" /\ entry = "detect_terminal_status" =>
        /\ HasFailureKeyword(DetectedWords) => DetectResult = Some("failure")
        /\ ~HasFailureKeyword(DetectedWords) /\ HasSuccessKeyword(DetectedWords) =>
              DetectResult = Some("success")
        /\ ~HasFailureKeyword(DetectedWords) /\ ~HasSuccessKeyword(DetectedWords) =>
              DetectResult = None

\* C15 witness: a line such as "COMPLETED TASK Error": a success keyword first,
\* then a failure keyword in mixed case; the status is failure
C15_Witness ==
    /\ pc = "called"
    /\ entry = "detect_terminal_status"
    /\ HasSuccessKeyword(DetectedWords)
    /\ DetectedWords[Len(DetectedWords)] = "Error"
    /\ HasPair(DetectedWords, "task", "error")
    /\ DetectResult = Some("failure")

----------------------------------------------------------------------------
(* Detection on progress lines.                                             *)

\* every line whose iteration is over was classified: the loop goes on to the
\* next line only after a line without terminal keyword, progress or not
EveryLineClassified ==
    /\ pc = "pull" /\ pulled # << >> =>
          detect_terminal_status(pulled[Len(pulled)]) = None
    /\ pc = "detect" =>
          /\ line = pulled[Len(pulled)]
          /\ progress = parse_progress_line(line)
          /\ progress # None =>
                points # << >> /\ points[Len(points)] = progress[1]

\* the step that leaves line 520 without an interrupt ends the loop with the
\* status of the line when it has one, whatever parse_progress_line returned
ClassifiedStep ==
    pc = "detect" /\ signal' = signal =>
        LET terminal_status == detect_terminal_status(line)
        IN  IF terminal_status # None
            THEN /\ pc' = "returned"
                 /\ result' = Some([points |-> points, status |-> terminal_status])
            ELSE pc' = "pull" /\ result' = result

\* C16: terminal-status detection is evaluated on every pulled line whether or
\* not the line parsed as progress: a line that parses as a progress sample and
\* contains a terminal keyword has its sample appended to the history and then
\* ends the loop with the detected status.
C16_DetectionOnEveryLine == [](EveryLineClassified) /\ [][ClassifiedStep]_vars

\* C16 witness: "transferred 3 GiB of 10 GiB (completed) in 30s" was pulled
\* last; its sample ends the history returned with status success
C16_Witness ==
    /\ pc = "returned"
    /\ pulled # << >>
    /\ pulled[Len(pulled)] = DoneLine
    /\ result = Some([points |-> points, status |-> Some("success")])
    /\ points # << >>
    /\ Some(points[Len(points)]) = parse_progress_line(DoneLine)

----------------------------------------------------------------------------
(* Properties of find_task_logfile.                                         *)

FindUpid == fn_args.upid_str

FindTree == fn_args.tree

FindResult == fn_ret[1].value

FindProbed == fn_ret[1].probed

HexCharacters == {"0", "1", "2", "3", "4", "5", "6", "7", "8", "9",
                  "a", "b", "c", "d", "e", "f", "A", "B", "C", "D", "E", "F"}

\* too few segments, no UPID prefix, or a start field that is not 8
\* hexadecimal characters
TooFewSegments(upid) == Len(upid) < 8

NoUpidPrefix(upid) == upid[1] # <<"U", "P", "I", "D">>

NonHexStart(upid) ==
    Len(upid) >= 5 /\ (Len(upid[5]) # 8 \/ \E i \in 1..Len(upid[5]) : upid[5][i] \notin HexCharacters)

Malformed(upid) == TooFewSegments(upid) \/ NoUpidPrefix(upid) \/ NonHexStart(upid)

\* the file of that name under a subdirectory
FileIn(folder, upid) == [folder |-> folder, name |-> upid]

\* C17: find_task_logfile validates the identifier before any filesystem
\* lookup: an identifier with too few segments, without the UPID prefix or
\* with a start field that is not hexadecimal resolves to none, no path having
\* been tested, even when a file of exactly that name exists under the
\* subdirectory its start field would select.
C17_MalformedResolvesToNone ==
    pc = "called" /\ entry = "find_task_logfile" /\ Malformed(FindUpid) =>
        FindResult = None /\ FindProbed = << >>

\* C17 witness: UPID:n:1:1:A1234567 (5 segments) with a file of that name in
\* the folder A resolves to none
C17_Witness ==
    /\ pc = "called"
    /\ entry = "find_task_logfile"
    /\ Len(FindUpid) = 5
    /\ FindUpid[1] = UpidWord
    /\ FindUpid[5] = <<"A", "1", "2", "3", "4", "5", "6", "7">>
    /\ FileIn("A", FindUpid) \in FindTree
    /\ FindResult = None

\* the place of a folder in the order 0-9 then A-F
FolderRank(folder) ==
    CHOOSE k \in 1..16 :
        <<"0", "1", "2", "3", "4", "5", "6", "7", "8", "9", "A", "B", "C", "D", "E", "F">>[k] = folder

\* the folders that hold a file of the name
Holding(upid, tree) == {f.folder : f \in {g \in tree : g.name = upid}}

\* the selected folder: the first character of the start field, upper-cased
SelectedFolder(upid) ==
    LET c == upid[5][1]
    IN  CASE c = "a" -> "A" [] c = "b" -> "B" [] c = "c" -> "C"
          [] c = "d" -> "D" [] c = "e" -> "E" [] c = "f" -> "F" [] OTHER -> c

\* C18: for a well-formed identifier find_task_logfile returns the file
\* root/<first hex character of the start field, upper-cased>/<taskId> whenever
\* it exists, also when files of the same name exist in other subdirectories;
\* otherwise the file of that name in the first of the 16 subdirectories, in
\* the order 0-9 then A-F, that holds one; none only when no subdirectory does.
C18_SelectedFolderThenScan ==
    pc = "called" /\ entry = "find_task_logfile" /\ ~Malformed(FindUpid) =>
        LET holding == Holding(FindUpid, FindTree)
        IN  IF SelectedFolder(FindUpid) \in holding
            THEN FindResult = Some(FileIn(SelectedFolder(FindUpid), FindUpid))
            ELSE IF holding # {}
            THEN \E f \in holding :
                    /\ \A g \in holding : FolderRank(f) <= FolderRank(g)
                    /\ FindResult = Some(FileIn(f, FindUpid))
            ELSE FindResult = None

\* C18 witness: the start field b0000000 selects B, which holds no file; the
\* folders 3 and F both do, and the file in 3 is returned
C18_Witness ==
    /\ pc = "called"
    /\ entry = "find_task_logfile"
    /\ ~Malformed(FindUpid)
    /\ FindUpid[5][1] = "b"
    /\ Holding(FindUpid, FindTree) = {"3", "F"}
    /\ FindResult = Some(FileIn("3", FindUpid))

----------------------------------------------------------------------------
(* Properties of read_active_tasks.                                         *)

IndexFile == fn_args.index

IndexResult == fn_ret[1]

\* the whitespace-separated tokens of a text
RECURSIVE Tokens(_)
Tokens(text) ==
    IF text = << >> THEN << >>
    ELSE IF text[1] \in {" ", "\t", "\n"} THEN Tokens(SubSeq(text, 2, Len(text)))
    ELSE LET n == CHOOSE k \in 1..Len(text) :
                      /\ \A j \in 1..k : text[j] \notin {" ", "\t", "\n"}
                      /\ (k = Len(text) \/ text[k + 1] \in {" ", "\t", "\n"})
         IN  <<SubSeq(text, 1, n)>> \o Tokens(SubSeq(text, n + 1, Len(text)))

\* the lines of the index that hold at least one token
RECURSIVE WithoutBlankLines(_)
WithoutBlankLines(lines) ==
    IF lines = << >> THEN << >>
    ELSE LET rest == WithoutBlankLines(SubSeq(lines, 2, Len(lines)))
         IN  IF Tokens(lines[1]) = << >> THEN rest ELSE <<lines[1]>> \o rest

\* C19: read_active_tasks never fails on the content of the index: a missing
\* index yields the empty sequence, and every empty line, a line of whitespace
\* only included, is skipped without raising: the result is the one of the
\* index without those lines.
C19_IndexNeverFatal ==
    pc = "called" /\ entry = "read_active_tasks" =>
        /\ IndexResult.kind = "return"
        /\ ~IndexFile.exists => IndexResult.value = << >>
        /\ IndexFile.exists =>
              IndexResult = read_active_tasks([exists |-> TRUE,
                                              lines |-> WithoutBlankLines(IndexFile.lines)])

\* the status the line states: the first token that follows the identifier,
\* empty when nothing follows
StatedStatus(l) == IF Len(Tokens(l)) >= 2 THEN Tokens(l)[2] ELSE << >>

\* the identifier and the stated status of the lines with a stated status of
\* "" or "0", in index order
RECURSIVE ActiveStated(_)
ActiveStated(lines) ==
    IF lines = << >> THEN << >>
    ELSE LET rest == ActiveStated(SubSeq(lines, 2, Len(lines)))
             l == lines[1]
         IN  IF Tokens(l) # << >> /\ StatedStatus(l) \in {<< >>, <<"0">>}
             THEN <<[upid |-> Tokens(l)[1], status |-> StatedStatus(l)]>> \o rest
             ELSE rest

\* the identifier and the status of the records returned
IdAndStatus(tasks) ==
    [i \in 1..Len(tasks) |-> [upid |-> tasks[i].upid, status |-> tasks[i].status]]

----------------------------------------------------------------------------
(* Properties of task selection.                                            *)

SelectInput == fn_args.tasks

SelectFiltered == fn_ret[1].restore_tasks

SelectChosen == fn_ret[1].selected_task

\* the restore-like records of the model: a restore action, or one of the
\* keywords in the identifier or the raw line, in any letter case
RestoreLike == {RestoreRecord, ActionOnlyRecord, KeywordRecord}

\* the places of the restore-like records of a list
RestorePlaces(tasks) == {i \in 1..Len(tasks) : tasks[i] \in RestoreLike}

\* C21: task selection is deterministic: filter_restore_tasks returns the
\* restore-like records of its input as a subsequence in the same order;
\* choose_restore_task returns none for the empty list, the single record of
\* a one-element list and the last record of a longer one; so the task
\* monitored is the last restore-like record listed.
C21_LastRestoreTaskSelected ==
    pc = "called" /\ entry = "select" =>
        LET places == RestorePlaces(SelectInput)
        IN  /\ Len(SelectFiltered) = Cardinality(places)
            /\ \E at \in [1..Len(SelectFiltered) -> places] :
                  /\ \A i, j \in 1..Len(SelectFiltered) : i < j => at[i] < at[j]
                  /\ \A i \in 1..Len(SelectFiltered) : SelectFiltered[i] = SelectInput[at[i]]
            /\ SelectFiltered = << >> => SelectChosen = None
            /\ Len(SelectFiltered) = 1 => SelectChosen = Some(SelectFiltered[1])
            /\ Len(SelectFiltered) > 1 => SelectChosen = Some(SelectFiltered[Len(SelectFiltered)])
            /\ places # {} =>
                  \E last \in places :
                      /\ \A i \in places : i <= last
                      /\ SelectChosen = Some(SelectInput[last])

\* C21 witness: three records, the restore-like ones first and second and
\* different; the second is selected
C21_Witness ==
    /\ pc = "called"
    /\ entry = "select"
    /\ SelectInput = <<ActionOnlyRecord, KeywordRecord, StartRecord>>
    /\ SelectFiltered = <<ActionOnlyRecord, KeywordRecord>>
    /\ SelectChosen = Some(KeywordRecord)

----------------------------------------------------------------------------
(* Properties of the repaints.                                              *)

IsFrame(written) == written.kind = "frame"

\* the repaints written so far, in order
FramesOf(written) == SelectSeq(written, IsFrame)

\* C22: the line count render_dashboard returns is the count the loop hands
\* to the next repaint: on a terminal the first repaint moves the cursor not
\* at all, every later one moves it up by exactly the line count of the
\* repaint before it, and each line is cleared before it is written; when the
\* output is not a terminal no cursor movement, line clear or colour is written.
C22_CursorUpByPreviousFrame ==
    LET frames == FramesOf(out)
    IN  /\ pc \in LoopPcs =>
              previous_line_count =
                  IF frames = << >> THEN 0 ELSE Len(frames[Len(frames)].lines)
        /\ \A k \in 1..Len(frames) :
              IF tty_mode
              THEN /\ frames[k].clear
                   /\ frames[k].cursor_up =
                         IF k = 1 THEN 0 ELSE Len(frames[k - 1].lines)
              ELSE /\ ~frames[k].clear
                   /\ frames[k].cursor_up = 0
                   /\ \A i \in 1..Len(frames[k].lines) : ~frames[k].lines[i].color

\* C22 witness: on a terminal, a second repaint taller than the first moved
\* the cursor up by the height of the first
C22_Witness ==
    /\ tty_mode
    /\ Len(FramesOf(out)) >= 2
    /\ FramesOf(out)[1].cursor_up = 0
    /\ FramesOf(out)[2].cursor_up = Len(FramesOf(out)[1].lines)
    /\ Len(FramesOf(out)[2].lines) > Len(FramesOf(out)[1].lines)

----------------------------------------------------------------------------
(* Detection and progress lines in Following.                               *)

\* C23: in Following, terminal-status detection is applied to a line only
\* when the line did not parse as progress: a line that parses as a progress
\* sample never moves the loop to Terminal.
C23_DetectionOnlyOnNonProgress ==
    EndedByLine /\ pulled # << >> => parse_progress_line(pulled[Len(pulled)]) = None

\* a line that parsed as progress: its sample is appended, the estimator is
\* updated from the speed kept so far, a repaint without the waiting marker is
\* forced, and the line is classified like any other line
ProgressLineSteps ==
    /\ pc = "parse" /\ pc' # "returned" /\ parse_progress_line(line) # None =>
          /\ points' = Append(points, parse_progress_line(line)[1])
          /\ pc' = "estimate"
    /\ pc = "estimate" /\ pc' # "returned" =>
          /\ last_speed' = calculate_eta_and_speed_with_memory(points, last_speed).speed
          /\ last_eta' = calculate_eta_and_speed_with_memory(points, last_speed).eta
          /\ pc' = "paint"
    /\ pc = "paint" /\ pc' # "returned" /\ has_stream =>
          /\ Len(out') = Len(out) + 1
          /\ out'[Len(out')].kind = "frame"
          /\ ~out'[Len(out')].lines[1].status.waiting
          /\ pc' = "heartbeat"
    /\ pc = "detect" /\ progress # None /\ signal' = signal =>
          /\ pc' = "returned" <=> detect_terminal_status(line) # None
          /\ pc' = "returned" =>
                result' = Some([points |-> points, status |-> detect_terminal_status(line)])

\* C23, amended: in Following, terminal-status detection is applied to every
\* pulled line, also to one that parsed as progress: such a line appends its
\* sample, updates the estimator and forces a redraw, and then moves the loop
\* to Terminal exactly when it contains a terminal keyword.
C23_ProgressLineIsClassified == [][ProgressLineSteps]_vars

\* C23 witness: with a stream attached, the line "transferred 3 GiB of 10 GiB
\* (completed) in 30s" was painted as a fresh sample and ended the run as success
C23_Witness ==
    /\ has_stream
    /\ EndedByLine
    /\ pulled # << >>
    /\ parse_progress_line(pulled[Len(pulled)]) # None
    /\ result[1].status = Some("success")
    /\ \E k \in 1..Len(out) :
          /\ out[k].kind = "frame"
          /\ ~out[k].lines[1].status.waiting
          /\ out[k].lines[1].status.elapsed = 30

----------------------------------------------------------------------------
(* The waiting marker.                                                      *)

\* the last repaint written carries the "waiting log" suffix
LastFrameWaiting ==
    /\ out # << >>
    /\ out[Len(out)].kind = "frame"
    /\ out[Len(out)].lines[1].status.waiting

\* C24: the "waiting log" suffix is painted only in an iteration in which no
\* fresh sample arrived: when the heartbeat check of an iteration whose line
\* parsed as a progress sample is over, the last frame painted does not carry
\* the suffix, for every update interval and every non-decreasing clock.
C24_NoWaitingAfterFreshSample ==
    pc = "detect" /\ progress # None /\ has_stream => ~LastFrameWaiting

----------------------------------------------------------------------------
(* The repaint forced by a fresh sample.                                    *)

IsSampleFrame(written) ==
    written.kind = "frame" /\ ~written.lines[1].status.waiting

\* the repaints without the waiting marker written so far, in order
SampleFramesOf(written) == SelectSeq(written, IsSampleFrame)

\* C25: with an output stream attached, every line that parses as a progress
\* sample is followed, before the next line is pulled, by a repaint without
\* the waiting marker that reflects that sample, whatever the update interval
\* and however little time has passed: once the repaint of an iteration is
\* over there is one such frame per sample of the history, showing it.
C25_EverySampleRepainted ==
    has_stream /\ pc \in {"pull", "heartbeat", "detect"} =>
        LET frames == SampleFramesOf(out)
        IN  /\ Len(frames) = Len(points)
            /\ \A k \in 1..Len(frames) :
                  /\ frames[k].lines[1].status.elapsed = points[k].elapsed
                  /\ frames[k].lines[1].status.transferred = points[k].value
                  /\ frames[k].lines[1].status.total = points[k].total

\* C25 witness: update interval 1 on a clock that never advances; two
\* different samples were pulled and two frames painted before the next pull
C25_Witness ==
    /\ has_stream
    /\ update_interval = 1
    /\ now_fn = "frozen"
    /\ pc = "pull"
    /\ Len(points) = 2
    /\ points[1] # points[2]
    /\ Len(SampleFramesOf(out)) = 2

----------------------------------------------------------------------------
(* Lines that yield no sample.                                              *)

\* the steps of one loop iteration, the pull included, with the line they handle
IterationStep == pc \in {"parse", "heartbeat", "detect"} \/ (pc = "pull" /\ pulled' # pulled)

HandledLine == IF pc = "pull" THEN line' ELSE line

NoSampleSteps ==
    IterationStep /\ parse_progress_line(HandledLine) = None =>
        /\ points' = points
        /\ last_speed' = last_speed
        /\ last_eta' = last_eta
        /\ HandledLine.text = << >> => recent_logs' = recent_logs
        /\ pc' \in {"parse", "heartbeat", "detect", "pull", "returned"}
        /\ pc' = "returned" =>
              \/ signal' # None
              \/ /\ pc = "detect"
                 /\ result' = Some([points |-> points,
                                     status |-> detect_terminal_status(HandledLine)])
                 /\ detect_terminal_status(HandledLine) # None

\* C26: a pulled line that yields no sample, an empty tick or a line no
\* pattern matches, never fails the loop and leaves the sample history, the
\* last speed and the last ETA as they were, also in the iteration that paints
\* a waiting redraw; an empty tick leaves the ring of recent log lines
\* unchanged as well.
C26_NoSampleLineChangesNothing == [][NoSampleSteps]_vars

\* C26 witness: a tick after a sample and a log line has just caused a
\* waiting redraw, the estimator's values still those of the sample
C26_Witness ==
    /\ pc = "detect"
    /\ line.text = << >>
    /\ LastFrameWaiting
    /\ points # << >>
    /\ recent_logs # << >>
    /\ Len(pulled) > Len(recent_logs)

----------------------------------------------------------------------------
(* The height of the frames of one run.                                     *)

\* the number of lines of each repaint, in the order written
FrameHeights == [k \in 1..Len(FramesOf(out)) |-> Len(FramesOf(out)[k].lines)]

\* C29: across one run the number of lines per repaint never decreases from
\* one repaint to the next, and every repaint has between 1 and 6 lines (the
\* status line and at most five log lines).
C29_FrameHeightNeverShrinks ==
    /\ \A k \in 1..Len(FrameHeights) : FrameHeights[k] \in 1..6
    /\ \A k \in 1..(Len(FrameHeights) - 1) : FrameHeights[k] <= FrameHeights[k + 1]

\* C29 witness: a run whose first repaint was the status line alone, whose
\* ring then filled, and that kept six lines after a sixth log line arrived
C29_Witness ==
    /\ Len(FrameHeights) >= 3
    /\ FrameHeights[1] = 1
    /\ FrameHeights[Len(FrameHeights) - 1] = 6
    /\ FrameHeights[Len(FrameHeights)] = 6
    /\ Len(NonEmptyOf(pulled)) >= 6
    /\ LastFrameWaiting

----------------------------------------------------------------------------
(* follow_log_lines: the monitor loop fed from a logfile that another       *)
(* process appends to. The file is a sequence of tokens, a word or the      *)
(* newline character; one write appends one token, so a line may be in the  *)
(* file without its end.                                                    *)

\* most tokens in the followed logfile
MaxFileLen == 4

\* most tokens in the logfile before the monitor starts
MaxExisting == 2

NEWLINE == "\n"

FollowWords == {"TASK", "OK", "failed"}

FollowTokens == FollowWords \cup {NEWLINE}

\* the contents the logfile may have when the monitor starts
ExistingContents == UNION {[1..k -> FollowTokens] : k \in 0..MaxExisting}

\* the position of a handle opened at the end of the file
open_position_AtEnd(content) == Len(content)

\* log_path.open(encoding="utf-8"): mode "r", the handle starts at byte 0
open_position(content) == 0

\* the characters up to and including the first newline, or all of them
RECURSIVE ReadUpToNewline(_)
ReadUpToNewline(rest) ==
    IF rest = << >> THEN << >>
    ELSE IF rest[1] = NEWLINE THEN <<NEWLINE>>
    ELSE <<rest[1]>> \o ReadUpToNewline(Tail(rest))

\* handle.readline() at a position: << >> stands for '' at the end of the file
readline(content, position) == ReadUpToNewline(DropChars(content, position))

\* one next() of the generator: what it yields, whether it slept first and
\* where the handle is afterwards
follow_log_lines(content, position) ==
    LET read == readline(content, position)
    IN  IF read # << >>
        THEN [text |-> RstripNewline(read), slept |-> FALSE,
              position |-> position + Len(read)]
        ELSE [text |-> << >>, slept |-> TRUE, position |-> position]

\* the yielded string as the loop sees it. Every progress pattern needs a
\* number, and no text over FollowWords has one: the three searches are None.
LineOfText(text) == Line(text, None, None, None)

\* monitor_restore_task(task) with the logfile resolved and log_lines None:
\* collect_monitoring_data(follow_log_lines(logfile)) is about to start
InitFollow ==
    /\ entry = "monitor"
    /\ pc = "collect_init"
    /\ restore_tasks = <<TaskA>>
    /\ files = FilesPresent
    /\ log_supplied = FALSE
    /\ has_stream = FALSE
    /\ tty_mode = FALSE
    /\ update_interval = 1
    /\ now_fn = "frozen"
    /\ now = 0
    /\ result = None
    /\ final_status = None
    /\ out = << >>
    /\ pulled = << >>
    /\ resolved = 1
    /\ signal = None
    /\ IdleLoop
    /\ NoCall
    /\ log_file \in ExistingContents
    /\ handle = None
    /\ yielded = << >>
    /\ existing = 0

\* the process that writes the task log appends to it
Write ==
    /\ Len(log_file) < MaxFileLen
    /\ \E token \in FollowTokens : log_file' = Append(log_file, token)
    /\ UNCHANGED <<cfgVars, loopVars, runVars, fnVars, handle, yielded, existing>>

\* lines 472-475 with the stream of line 549: the for statement resumes the
\* generator, which opens the file on its first resumption
FollowPull ==
    /\ pc = "pull"
    /\ LET position == IF handle = None THEN open_position(log_file) ELSE handle[1]
           item == follow_log_lines(log_file, position)
           l == LineOfText(item.text)
       IN  /\ handle' = Some(item.position)
           /\ existing' = IF handle = None THEN Len(log_file) ELSE existing
           /\ yielded' = IF item.slept THEN yielded ELSE Append(yielded, item.text)
           /\ line' = l
           /\ IF l.text # << >>
              THEN /\ last_seen_line' = l
                   /\ recent_logs' = deque_append(recent_logs, l)
              ELSE UNCHANGED <<last_seen_line, recent_logs>>
    /\ pc' = "parse"
    /\ UNCHANGED <<cfgVars, fnVars, log_file, progress, points, last_speed, last_eta,
                   previous_line_count, last_output_time, now, result,
                   final_status, out, pulled, resolved, signal>>

\* the steps of the monitor, which runs in one thread without waiting for anyone
MonitorStep ==
    \/ CollectInit
    \/ FollowPull
    \/ ParseAppend
    \/ Heartbeat
    \/ Detect
    \/ Return

NextFollow ==
    \/ Write
    \/ CollectInit
    \/ FollowPull
    \/ ParseAppend
    \/ Heartbeat
    \/ Detect
    \/ Return

SpecFollow == InitFollow /\ [][NextFollow]_vars

\* the monitor keeps running; the writer may stop at any time
SpecFollowFair == SpecFollow /\ WF_vars(MonitorStep)

----------------------------------------------------------------------------
(* What the follower delivers.                                              *)

WithoutNewlines(content) == SelectSeq(content, LAMBDA token : token # NEWLINE)

RECURSIVE Joined(_)
Joined(texts) == IF texts = << >> THEN << >> ELSE texts[1] \o Joined(Tail(texts))

NewlinePlaces(content) == {i \in 1..Len(content) : content[i] = NEWLINE}

\* the place of the k-th newline of the content
NthNewline(content, k) ==
    CHOOSE i \in NewlinePlaces(content) :
        Cardinality({j \in NewlinePlaces(content) : j <= i}) = k

\* the lines of the content that have their newline, without it, in file order
WholeLinesOf(content) ==
    [k \in 1..Cardinality(NewlinePlaces(content)) |->
        SubSeq(content,
               (IF k = 1 THEN 0 ELSE NthNewline(content, k - 1)) + 1,
               NthNewline(content, k) - 1)]

\* the lines that were whole in the file when it was opened
ExistingLines == WholeLinesOf(SubSeq(log_file, 1, existing))

\* what has been delivered is the file from its first byte up to the handle,
\* in file order; the lines that existed at the open come first, in file order
DeliveredInFileOrder ==
    handle # None =>
        /\ handle[1] <= Len(log_file)
        /\ Joined(yielded) = WithoutNewlines(SubSeq(log_file, 1, handle[1]))
        /\ \A k \in 1..Len(yielded) :
              k <= Len(ExistingLines) => yielded[k] = ExistingLines[k]

\* the generator can always be resumed
NeverEnds == pc = "pull" => ENABLED FollowPull

\* a resumption with nothing new to read yields the empty tick and consumes
\* nothing; one with new data yields what it read and moves the handle
TickWhenNoData ==
    pc = "pull" /\ pc' = "parse" =>
        LET position == IF handle = None THEN 0 ELSE handle[1]
        IN  IF position = Len(log_file)
            THEN /\ line'.text = << >>
                 /\ yielded' = yielded
                 /\ handle' = Some(position)
            ELSE /\ Len(yielded') = Len(yielded) + 1
                 /\ line'.text = yielded'[Len(yielded')]
                 /\ handle'[1] > position

\* C27: follow_log_lines reads from byte 0: the lines already in the file are
\* yielded in file order before anything appended later, appended data is
\* yielded in the order written, each resumption that finds no new data
\* yields an empty-string tick, and the sequence never ends.
C27_FollowedFromByteZeroInOrder ==
    /\ [](DeliveredInFileOrder /\ NeverEnds)
    /\ [][TickWhenNoData]_vars

\* C27 witness: a whole line was in the file at the open, another one was
\* appended afterwards, both were yielded in that order and the next
\* resumption found nothing new
C27_Witness ==
    /\ handle # None
    /\ existing >= 2
    /\ Len(ExistingLines) = 1
    /\ Len(WholeLinesOf(log_file)) = 2
    /\ yielded = WholeLinesOf(log_file)
    /\ yielded[1] # yielded[2]
    /\ handle[1] = Len(log_file)
    /\ pc = "parse"
    /\ line.text = << >>

\* C30: under any interleaving of the writer and follow_log_lines every
\* non-empty string yielded is one complete line: the k-th line of the file
\* that has its newline is the k-th string yielded, so a partly written line
\* at the end of the file is neither yielded as a fragment nor split in two.
C30_OnlyWholeLinesYielded ==
    \A k \in 1..Len(yielded) :
        k <= Len(WholeLinesOf(log_file)) => yielded[k] = WholeLinesOf(log_file)[k]

----------------------------------------------------------------------------
(* The end of a followed run.                                               *)

\* the whole lines of the file that carry a terminal status
TerminalPlaces ==
    {k \in 1..Len(WholeLinesOf(log_file)) :
        detect_terminal_status(LineOfText(WholeLinesOf(log_file)[k])) # None}

\* the status of the first of them in log order
FirstTerminalStatus ==
    LET first == CHOOSE k \in TerminalPlaces : \A j \in TerminalPlaces : k <= j
    IN  detect_terminal_status(LineOfText(WholeLinesOf(log_file)[first]))

EndedWithFirstTerminalStatus ==
    /\ TerminalPlaces # {}
    /\ pc \in AfterLoop
    /\ result # None
    /\ result[1].status = FirstTerminalStatus

\* C28: when the followed log contains a success or failure line and no
\* interruption occurs, the loop eventually ends with the status of the first
\* such line in log order.
C28_TerminalLineEndsTheRun ==
    (TerminalPlaces # {}) ~> EndedWithFirstTerminalStatus


====
